---- MODULE Spec2Model ----
(***************************************************************************)
(* A model of mailcow_cli.py: the MailcowClient response interpretation    *)
(* (_check_response), the HTTP layer's failure behaviour (_request) and    *)
(* the four "add" commands (jobs, mailbox, alias, transport) in batch and  *)
(* single mode.                                                            *)
(*                                                                         *)
(* Text that the code inspects character by character (CSV cells, option   *)
(* values) is a sequence of one-character strings, so that strip() and     *)
(* lower() are computed; text that is only assembled (messages) is a       *)
(* string built with \o.                                                   *)
(***************************************************************************)
EXTENDS Integers, Sequences, FiniteSets, TLC

(* ------------------------------ bounds -------------------------------- *)
\* rows read from one CSV file
MaxRows == 3
\* cells in one CSV row
MaxCols == 3
\* options given in one invocation of an update command
MaxOptions == 2
\* length of a generated password whose every filling and order is tried
MaxLength == 5
\* characters of a local part
MaxLocal == 4
\* elements of a JSON list returned by the API
MaxElems == 2

(* ------------------------- JSON values (API replies) ------------------- *)
\* One JSON value that is not a list with elements: k is its kind.
\*   "dict": a mapping with optional keys type and msg
\*   "str" : the string s        "num": the number whose text is s
\*   "null": None                "list": an empty nested list
JDict(hasType, type, hasMsg, msg) ==
    [k |-> "dict", hasType |-> hasType, type |-> type, hasMsg |-> hasMsg, msg |-> msg, s |-> ""]
JStr(s) == [k |-> "str", hasType |-> FALSE, type |-> "", hasMsg |-> FALSE, msg |-> "", s |-> s]
JNum(s) == [k |-> "num", hasType |-> FALSE, type |-> "", hasMsg |-> FALSE, msg |-> "", s |-> s]
JNull == [k |-> "null", hasType |-> FALSE, type |-> "", hasMsg |-> FALSE, msg |-> "", s |-> ""]
JEmptyList == [k |-> "list", hasType |-> FALSE, type |-> "", hasMsg |-> FALSE, msg |-> "", s |-> ""]

\* A decoded response body: a list of values, or one value that is no list.
JList(elems) == [top |-> "list", elems |-> elems]
JScalar(e) == [top |-> "scalar", elems |-> <<e>>]
NoResponse == JScalar(JNull)

\* Python truth value of a decoded body (the test "not result").
Truthy(result) ==
    IF result.top = "list" THEN Len(result.elems) > 0
    ELSE LET e == result.elems[1] IN
         CASE e.k = "null" -> FALSE
           [] e.k = "list" -> FALSE
           [] e.k = "dict" -> e.hasType \/ e.hasMsg
           [] e.k = "str"  -> e.s # ""
           [] e.k = "num"  -> e.s # "0"

\* Python repr() of one value.
Repr(e) ==
    CASE e.k = "null" -> "None"
      [] e.k = "list" -> "[]"
      [] e.k = "num"  -> e.s
      [] e.k = "str"  -> "'" \o e.s \o "'"
      [] e.k = "dict" ->
            "{" \o (IF e.hasType THEN "'type': '" \o e.type \o "'" ELSE "")
                \o (IF e.hasType /\ e.hasMsg THEN ", " ELSE "")
                \o (IF e.hasMsg THEN "'msg': '" \o e.msg \o "'" ELSE "")
                \o "}"

RECURSIVE ReprItems(_)
ReprItems(elems) ==
    IF Len(elems) = 0 THEN ""
    ELSE IF Len(elems) = 1 THEN Repr(elems[1])
    ELSE Repr(elems[1]) \o ", " \o ReprItems(Tail(elems))

\* Python str(result).
PyStr(result) ==
    IF result.top = "list" THEN "[" \o ReprItems(result.elems) \o "]"
    ELSE IF result.elems[1].k = "str" THEN result.elems[1].s
    ELSE Repr(result.elems[1])

\* ' '.join(result) for a list whose items are all strings.
RECURSIVE JoinSpace(_)
JoinSpace(elems) ==
    IF Len(elems) = 0 THEN ""
    ELSE IF Len(elems) = 1 THEN elems[1].s
    ELSE elems[1].s \o " " \o JoinSpace(Tail(elems))

\* What a call of _check_response gives: a (success, msg) pair, or a raised
\* exception whose text is msg.
Returned(success, msg) == [raised |-> FALSE, success |-> success, msg |-> msg]
Raised(msg) == [raised |-> TRUE, success |-> FALSE, msg |-> msg]

\* str.join raises TypeError on an item that is not a string.
JoinResult(elems) ==
    IF \A i \in 1..Len(elems) : elems[i].k = "str"
    THEN Returned(FALSE, JoinSpace(elems))
    ELSE Raised("sequence item: expected str instance")

\* MailcowClient._check_response
_check_response(result) ==
    IF ~Truthy(result) THEN Returned(FALSE, "Empty response")
    ELSE IF result.top = "list" /\ Len(result.elems) > 0 THEN
        LET first == result.elems[1] IN
        IF first.k = "dict" THEN
            Returned(first.hasType /\ first.type = "success",
                     IF first.hasMsg THEN first.msg ELSE PyStr(result))
        ELSE IF first.k = "str" THEN JoinResult(result.elems)
        ELSE Returned(FALSE, PyStr(result))
    ELSE Returned(FALSE, PyStr(result))

(* ------------------------- text (CSV cells, options) ------------------- *)
\* A cell is a sequence of one-character strings.
Uppercase == <<"A","B","C","D","E","F","G","H","I","J","K","L","M",
               "N","O","P","Q","R","S","T","U","V","W","X","Y","Z">>
Lowercase == <<"a","b","c","d","e","f","g","h","i","j","k","l","m",
               "n","o","p","q","r","s","t","u","v","w","x","y","z">>

LowerChar(c) ==
    IF \E i \in 1..Len(Uppercase) : Uppercase[i] = c
    THEN Lowercase[CHOOSE i \in 1..Len(Uppercase) : Uppercase[i] = c]
    ELSE c

UpperChar(c) ==
    IF \E i \in 1..Len(Lowercase) : Lowercase[i] = c
    THEN Uppercase[CHOOSE i \in 1..Len(Lowercase) : Lowercase[i] = c]
    ELSE c

\* str.lower()
lower(s) == [i \in 1..Len(s) |-> LowerChar(s[i])]

\* str.upper()
upper(s) == [i \in 1..Len(s) |-> UpperChar(s[i])]

\* str.capitalize()
capitalize(s) == [i \in 1..Len(s) |-> IF i = 1 THEN UpperChar(s[i]) ELSE LowerChar(s[i])]

IsSpace(c) == c \in {" ", "\t"}

\* str.lstrip() and str.rstrip()
RECURSIVE lstrip(_)
lstrip(s) == IF Len(s) > 0 /\ IsSpace(s[1]) THEN lstrip(Tail(s)) ELSE s

RECURSIVE rstrip(_)
rstrip(s) == IF Len(s) > 0 /\ IsSpace(s[Len(s)]) THEN rstrip(SubSeq(s, 1, Len(s) - 1)) ELSE s

\* str.strip(): drops the leading and the trailing whitespace
strip(s) == rstrip(lstrip(s))

\* Python's None, where an option or a variable may hold it; it differs from
\* every cell, whose items are single characters.
None == <<"None">>

\* Python truth value of a string or None
Given(s) == s # None /\ Len(s) > 0

(* ---------------------- header keywords of each command ---------------- *)
jobs_header_keywords ==
    { <<"u","s","e","r","1">>, <<"s","o","u","r","c","e">>,
      <<"s","r","c","_","u","s","e","r">>, <<"e","m","a","i","l">> }

mailbox_header_keywords ==
    { <<"l","o","c","a","l","_","p","a","r","t">>, <<"l","o","c","a","l","p","a","r","t">>,
      <<"e","m","a","i","l">>, <<"u","s","e","r","n","a","m","e">>, <<"u","s","e","r">> }

alias_header_keywords ==
    { <<"a","d","d","r","e","s","s">>, <<"a","l","i","a","s">>,
      <<"s","o","u","r","c","e">>, <<"f","r","o","m">> }

transport_header_keywords ==
    { <<"d","e","s","t","i","n","a","t","i","o","n">>, <<"d","e","s","t">>,
      <<"d","o","m","a","i","n">> }

\* mutant: only the empty row is skipped, a row of blank cells is not
is_blank_row_empty_only(row) == Len(row) = 0

\* "if not row or all(not cell.strip() for cell in row)": the row is skipped
is_blank_row(row) ==
    Len(row) = 0 \/ \A i \in 1..Len(row) : Len(strip(row[i])) = 0

\* mutant: the header is compared without lower()
mailbox_is_header_case_sensitive(row_num, row) ==
    row_num = 1 /\ row[1] \in mailbox_header_keywords

\* mutant: a header keyword is skipped on whatever line it stands
alias_is_header_any_line(row_num, row) == lower(row[1]) \in alias_header_keywords

\* "if row_num == 1 and row[0].lower() in (...)": the row is skipped
jobs_is_header(row_num, row) == row_num = 1 /\ lower(row[1]) \in jobs_header_keywords
mailbox_is_header(row_num, row) == row_num = 1 /\ lower(row[1]) \in mailbox_header_keywords
alias_is_header(row_num, row) == row_num = 1 /\ lower(row[1]) \in alias_header_keywords
transport_is_header(row_num, row) == row_num = 1 /\ lower(row[1]) \in transport_header_keywords

(* --------------------------- derived fields ---------------------------- *)
Separators == {".", "_", "-"}

\* re.split(r'[._-]', lp): the parts between separators, empty ones included
RECURSIVE SplitAcc(_, _, _)
SplitAcc(s, cur, acc) ==
    IF Len(s) = 0 THEN Append(acc, cur)
    ELSE IF Head(s) \in Separators THEN SplitAcc(Tail(s), <<>>, Append(acc, cur))
    ELSE SplitAcc(Tail(s), Append(cur, Head(s)), acc)

re_split(lp) == SplitAcc(lp, <<>>, <<>>)

\* ' '.join(parts), on cells
RECURSIVE JoinCells(_)
JoinCells(parts) ==
    IF Len(parts) = 0 THEN <<>>
    ELSE IF Len(parts) = 1 THEN parts[1]
    ELSE parts[1] \o <<" ">> \o JoinCells(Tail(parts))

\* mutant: the empty parts are kept ("if part" is missing)
name_from_local_part_keeps_empty(lp) ==
    LET parts == re_split(lp)
    IN  JoinCells([i \in 1..Len(parts) |-> capitalize(parts[i])])

\* mailbox_add.name_from_local_part
name_from_local_part(lp) ==
    LET parts == re_split(lp)
        kept == SelectSeq(parts, LAMBDA part : Len(part) > 0)
    IN  JoinCells([i \in 1..Len(kept) |-> capitalize(kept[i])])

\* the character classes of generate_password
lowercase == Lowercase
uppercase == Uppercase
digits == <<"0", "1", "2", "3", "4", "5", "6", "7", "8", "9">>
special == <<"!", "@", "#", "$", "%", "&", "*">>
alphabet == lowercase \o uppercase \o digits \o special

\* generate_password(length=16)
default_length == 16

\* range(length - 4): the positions filled from the whole alphabet
fill_range(length) == IF length > 4 THEN 1..(length - 4) ELSE {}

\* SystemRandom().shuffle(password), perm being the permutation it draws
shuffle(password, perm) == [i \in 1..Len(password) |-> password[perm[i]]]

\* mutant: the fourth required character is drawn from lowercase again
generate_password_no_special(length, c1, c2, c3, c4, fill, perm) ==
    shuffle(<<c1, c2, c3, c1>> \o fill, perm)

\* mailbox_add.generate_password: c1..c4 are what secrets.choice gives for the
\* four classes, fill what it gives for the positions of range(length - 4)
generate_password(length, c1, c2, c3, c4, fill, perm) ==
    shuffle(<<c1, c2, c3, c4>> \o fill, perm)

\* Outcomes of mailbox_add.generate_password() that a batch may draw: each has
\* a lowercase letter, an uppercase letter, a digit and a special character.
GeneratedPasswords == { <<"a","B","1","!">>, <<"z","Z","9","*">> }

\* --domain, a required option of mailbox add
domain == <<"d">>

\* email = f"{lp}@{domain}"
email(lp) == lp \o <<"@">> \o domain

(* ------------------------------ the gateway ---------------------------- *)
\* no call of _check_response
NotChecked == [raised |-> FALSE, success |-> FALSE, msg |-> "(not called)"]

\* What the remote end does with one HTTP request:
\*   "json"             a 2xx reply whose decoded body is body
\*   "http_error"       a non-2xx status (raise_for_status raises HTTPError)
\*   "connection_error" no reply: connection refused, timeout
\*   "raise"            the client call raises an Exception that is not a
\*                      RequestException
Reply(t, body) == [t |-> t, body |-> body]
NoReply == Reply("none", NoResponse)

\* MailcowClient._request: returns the decoded body, or ends the process with
\* sys.exit(1) on HTTPError and on RequestException.
_request(g) ==
    CASE g.t = "json" -> [t |-> "return", val |-> g.body, text |-> ""]
      [] g.t = "http_error" -> [t |-> "exit", val |-> NoResponse, text |-> "HTTP Error"]
      [] g.t = "connection_error" -> [t |-> "exit", val |-> NoResponse, text |-> "Connection error"]
      [] OTHER -> [t |-> "raise", val |-> NoResponse, text |-> "API Error"]

(* ----------------------- one step of an add command -------------------- *)
\* What processing one input record does: o is its outcome ("none" for a
\* skipped row), ds and de are added to success_count and error_count, text
\* is the message printed with it, called tells whether the client was
\* called, with arguments req and the gateway's behaviour reply, and end is
\* how the command goes on: "next" (next row), "return", "usage" (UsageError),
\* "exit" (SystemExit from _request) or "crash" (uncaught exception).
Step(o, ds, de, text, called, req, reply, end) ==
    [o |-> o, ds |-> ds, de |-> de, text |-> text, called |-> called,
     req |-> req, reply |-> reply, end |-> end, chk |-> NotChecked, out |-> <<>>]

\* the step s, in which _check_response was called and gave c
Checked(s, c) == [s EXCEPT !.chk = c]

\* one line written to standard output by click.echo: a label and a value
Line(k, v) == [k |-> k, v |-> v]

\* the step s, whose success (or preview) branch echoes lines
Printed(s, lines) == IF s.o = "accepted" THEN [s EXCEPT !.out = lines] ELSE s

Skipped == Step("none", 0, 0, "", FALSE, <<>>, NoReply, "next")
\* mutant: a rejected row leaves the loop ("break" for "continue")
Rejected_breaks(text) == Step("rejected", 0, 1, text, FALSE, <<>>, NoReply, "return")

\* click.echo("Row n: Skipping - ..."); error_count += 1; continue
Rejected(text) == Step("rejected", 0, 1, text, FALSE, <<>>, NoReply, "next")
Previewed(req) == Step("accepted", 1, 0, "", FALSE, req, NoReply, "next")

\* mutant: no "except Exception": what the call raises ends the command
submit_checked_uncaught(req, g) ==
    LET r == _request(g) IN
    IF r.t = "exit" THEN Step("none", 0, 0, r.text, TRUE, req, g, "exit")
    ELSE IF r.t = "raise" THEN Step("none", 0, 0, r.text, TRUE, req, g, "crash")
    ELSE LET c == _check_response(r.val) IN
         IF c.raised THEN Checked(Step("none", 0, 0, c.msg, TRUE, req, g, "crash"), c)
         ELSE IF c.success THEN Checked(Step("accepted", 1, 0, "", TRUE, req, g, "next"), c)
         ELSE Checked(Step("failed", 0, 1, c.msg, TRUE, req, g, "next"), c)

\* try: result = create_x(...); success, msg = _check_response(result) ...
\* except Exception as e: ...   (SystemExit is no Exception: it is not caught)
submit_checked(req, g) ==
    LET r == _request(g) IN
    IF r.t = "exit" THEN Step("none", 0, 0, r.text, TRUE, req, g, "exit")
    ELSE IF r.t = "raise" THEN Step("failed", 0, 1, r.text, TRUE, req, g, "next")
    ELSE LET c == _check_response(r.val) IN
         IF c.raised THEN Checked(Step("failed", 0, 1, c.msg, TRUE, req, g, "next"), c)
         ELSE IF c.success THEN Checked(Step("accepted", 1, 0, "", TRUE, req, g, "next"), c)
         ELSE Checked(Step("failed", 0, 1, c.msg, TRUE, req, g, "next"), c)

\* jobs_add: try: create_job(...); success_count += 1; except Exception ...
\* The returned body is not looked at.
submit_unchecked(req, g) ==
    LET r == _request(g) IN
    IF r.t = "exit" THEN Step("none", 0, 0, r.text, TRUE, req, g, "exit")
    ELSE IF r.t = "raise" THEN Step("failed", 0, 1, r.text, TRUE, req, g, "next")
    ELSE Step("accepted", 1, 0, "", TRUE, req, g, "next")

\* row[i] of Python (0-based i), stripped, or dflt when the row is shorter
cell_or(row, i, dflt) == IF Len(row) > i THEN strip(row[i + 1]) ELSE dflt

\* mutant: the preview branch is missing
jobs_row_ignores_preview(row_num, row, preview, g) ==
    IF is_blank_row(row) THEN Skipped
    ELSE IF jobs_is_header(row_num, row) THEN Skipped
    ELSE IF Len(row) < 3 THEN Rejected("need 3 columns (user1,password1,username)")
    ELSE LET u1 == strip(row[1])
             p1 == strip(row[2])
             uname == strip(row[3])
         IN  IF ~(Given(u1) /\ Given(p1) /\ Given(uname))
             THEN Rejected("empty required field")
             ELSE submit_unchecked(<<u1, p1, uname>>, g)

\* jobs_add, body of the batch loop
jobs_row(row_num, row, preview, g) ==
    IF is_blank_row(row) THEN Skipped
    ELSE IF jobs_is_header(row_num, row) THEN Skipped
    ELSE IF Len(row) < 3 THEN Rejected("need 3 columns (user1,password1,username)")
    ELSE LET u1 == strip(row[1])
             p1 == strip(row[2])
             uname == strip(row[3])
         IN  IF ~(Given(u1) /\ Given(p1) /\ Given(uname))
             THEN Rejected("empty required field")
             ELSE IF preview THEN Previewed(<<u1, p1, uname>>)
             ELSE submit_unchecked(<<u1, p1, uname>>, g)

\* mutant: with --gen-password a password is generated for every row
mailbox_row_gen_overrides(row_num, row, preview, gen_password, gp, g) ==
    IF is_blank_row(row) THEN Skipped
    ELSE IF mailbox_is_header(row_num, row) THEN Skipped
    ELSE IF Len(row) < 1 THEN Rejected("empty row")
    ELSE LET lp == strip(row[1])
             nm0 == cell_or(row, 1, <<>>)
             pw0 == cell_or(row, 2, None)
         IN  IF ~Given(lp) THEN Rejected("empty local_part")
             ELSE IF ~Given(pw0) /\ ~gen_password
             THEN Rejected("no password (use --gen-password)")
             ELSE LET pw == IF gen_password THEN gp ELSE pw0
                      nm == IF Given(nm0) THEN nm0 ELSE name_from_local_part(lp)
                  IN  IF preview THEN Previewed(<<lp, nm, pw>>)
                      ELSE submit_checked(<<lp, nm, pw>>, g)

\* mailbox_add, body of the batch loop; gp is what generate_password() gives
mailbox_row(row_num, row, preview, gen_password, gp, g) ==
    IF is_blank_row(row) THEN Skipped
    ELSE IF mailbox_is_header(row_num, row) THEN Skipped
    ELSE IF Len(row) < 1 THEN Rejected("empty row")
    ELSE LET lp == strip(row[1])
             nm0 == cell_or(row, 1, <<>>)
             pw0 == cell_or(row, 2, None)
         IN  IF ~Given(lp) THEN Rejected("empty local_part")
             ELSE IF ~Given(pw0) /\ ~gen_password
             THEN Rejected("no password (use --gen-password)")
             ELSE LET pw == IF Given(pw0) THEN pw0 ELSE gp
                      nm == IF Given(nm0) THEN nm0 ELSE name_from_local_part(lp)
                  IN  IF preview THEN Previewed(<<lp, nm, pw>>)
                      ELSE submit_checked(<<lp, nm, pw>>, g)

\* mutant: the fields are tested before they are stripped
alias_row_untrimmed(row_num, row, preview, g) ==
    IF is_blank_row(row) THEN Skipped
    ELSE IF alias_is_header(row_num, row) THEN Skipped
    ELSE IF Len(row) < 2 THEN Rejected("need 2 columns (address,goto)")
    ELSE LET addr == strip(row[1])
             gt == strip(row[2])
         IN  IF ~Given(row[1]) \/ ~Given(row[2]) THEN Rejected("empty address or goto")
             ELSE IF preview THEN Previewed(<<addr, gt>>)
             ELSE submit_checked(<<addr, gt>>, g)

\* alias_add, body of the batch loop
alias_row(row_num, row, preview, g) ==
    IF is_blank_row(row) THEN Skipped
    ELSE IF alias_is_header(row_num, row) THEN Skipped
    ELSE IF Len(row) < 2 THEN Rejected("need 2 columns (address,goto)")
    ELSE LET addr == strip(row[1])
             gt == strip(row[2])
         IN  IF ~Given(addr) \/ ~Given(gt) THEN Rejected("empty address or goto")
             ELSE IF preview THEN Previewed(<<addr, gt>>)
             ELSE submit_checked(<<addr, gt>>, g)

\* transport_add, body of the batch loop
transport_row(row_num, row, preview, g) ==
    IF is_blank_row(row) THEN Skipped
    ELSE IF transport_is_header(row_num, row) THEN Skipped
    ELSE IF Len(row) < 2 THEN Rejected("need at least 2 columns (destination,nexthop)")
    ELSE LET dest == strip(row[1])
             nh == strip(row[2])
             user == cell_or(row, 2, <<>>)
             passwd == cell_or(row, 3, <<>>)
         IN  IF ~Given(dest) \/ ~Given(nh) THEN Rejected("empty destination or nexthop")
             ELSE IF preview THEN Previewed(<<dest, nh, user, passwd>>)
             ELSE submit_checked(<<dest, nh, user, passwd>>, g)

(* ------------------------------ single mode ---------------------------- *)
Usage(text) == Step("none", 0, 0, text, FALSE, <<>>, NoReply, "usage")
Shown(req) == Step("accepted", 0, 0, "", FALSE, req, NoReply, "return")

\* mutant: _request reports the failure and returns None
single_checked_no_exit(req, g) ==
    LET r == _request(g) IN
    IF r.t = "raise" THEN Step("none", 0, 0, r.text, TRUE, req, g, "crash")
    ELSE LET c == _check_response(r.val) IN
         IF c.raised THEN Checked(Step("none", 0, 0, c.msg, TRUE, req, g, "crash"), c)
         ELSE IF c.success THEN Checked(Step("accepted", 0, 0, "", TRUE, req, g, "return"), c)
         ELSE Checked(Step("failed", 0, 0, c.msg, TRUE, req, g, "return"), c)

\* result = create_x(...); success, msg = _check_response(result); if success ...
\* Nothing catches what the call or _check_response raises.
single_checked(req, g) ==
    LET r == _request(g) IN
    IF r.t = "exit" THEN Step("none", 0, 0, r.text, TRUE, req, g, "exit")
    ELSE IF r.t = "raise" THEN Step("none", 0, 0, r.text, TRUE, req, g, "crash")
    ELSE LET c == _check_response(r.val) IN
         IF c.raised THEN Checked(Step("none", 0, 0, c.msg, TRUE, req, g, "crash"), c)
         ELSE IF c.success THEN Checked(Step("accepted", 0, 0, "", TRUE, req, g, "return"), c)
         ELSE Checked(Step("failed", 0, 0, c.msg, TRUE, req, g, "return"), c)

\* jobs_add: result = create_job(...); if result: ... else: ...
single_unchecked(req, g) ==
    LET r == _request(g) IN
    IF r.t = "exit" THEN Step("none", 0, 0, r.text, TRUE, req, g, "exit")
    ELSE IF r.t = "raise" THEN Step("none", 0, 0, r.text, TRUE, req, g, "crash")
    ELSE IF Truthy(r.val) THEN Step("accepted", 0, 0, "", TRUE, req, g, "return")
    ELSE Step("failed", 0, 0, "Failed to create sync job", TRUE, req, g, "return")

\* jobs_add, single mode; args = <<user1, password1, username>>
jobs_single(args, preview, g) ==
    IF ~(Given(args[1]) /\ Given(args[2]) /\ Given(args[3]))
    THEN Usage("Single mode requires --user1, --password1, and --username")
    ELSE IF preview
    THEN Printed(Shown(args), <<Line("[PREVIEW] Would create sync job", <<>>),
                                Line("Source", args[1]), Line("Destination", args[3])>>)
    ELSE Printed(single_unchecked(args, g),
                 <<Line("Success: Sync job created for", args[3]), Line("Source", args[1])>>)

\* mutant: the name is generated whether or not --name is given
mailbox_single_name_generated(args, preview, gen_password, gp, g) ==
    IF ~Given(args[1]) THEN Usage("Single mode requires --local-part")
    ELSE IF ~Given(args[3]) /\ ~gen_password
    THEN Usage("Single mode requires --password or --gen-password")
    ELSE LET pw == IF Given(args[3]) THEN args[3] ELSE gp
             full_name == name_from_local_part(args[1])
         IN  IF preview
             THEN Printed(Shown(<<args[1], full_name, pw>>),
                          <<Line("[PREVIEW] Would create mailbox", <<>>),
                            Line("Email", email(args[1])), Line("Name", full_name)>>)
             ELSE Printed(single_checked(<<args[1], full_name, pw>>, g),
                          <<Line("Success: Mailbox created", <<>>),
                            Line("Email", email(args[1])), Line("Name", full_name)>>
                          \o (IF gen_password THEN <<Line("Password", pw)>> ELSE <<>>))

\* mailbox_add, single mode; args = <<local_part, name, password>>
mailbox_single(args, preview, gen_password, gp, g) ==
    IF ~Given(args[1]) THEN Usage("Single mode requires --local-part")
    ELSE IF ~Given(args[3]) /\ ~gen_password
    THEN Usage("Single mode requires --password or --gen-password")
    ELSE LET pw == IF Given(args[3]) THEN args[3] ELSE gp
             full_name == IF Given(args[2]) THEN args[2] ELSE name_from_local_part(args[1])
         IN  IF preview
             THEN Printed(Shown(<<args[1], full_name, pw>>),
                          <<Line("[PREVIEW] Would create mailbox", <<>>),
                            Line("Email", email(args[1])), Line("Name", full_name)>>)
             ELSE Printed(single_checked(<<args[1], full_name, pw>>, g),
                          <<Line("Success: Mailbox created", <<>>),
                            Line("Email", email(args[1])), Line("Name", full_name)>>
                          \o (IF gen_password THEN <<Line("Password", pw)>> ELSE <<>>))

\* alias_add, single mode; args = <<address, goto>>
alias_single(args, preview, g) ==
    IF ~Given(args[1]) \/ ~Given(args[2])
    THEN Usage("Single mode requires --address and --goto")
    ELSE IF preview
    THEN Printed(Shown(args), <<Line("[PREVIEW] Would create alias", <<>>),
                                Line("Address", args[1]), Line("Goto", args[2])>>)
    ELSE Printed(single_checked(args, g),
                 <<Line("Success: Alias created", <<>>),
                   Line("Address", args[1]), Line("Goto", args[2])>>)

\* transport_add, single mode; args = <<destination, nexthop, username, password>>
transport_single(args, preview, g) ==
    IF ~Given(args[1]) \/ ~Given(args[2])
    THEN Usage("Single mode requires --destination and --nexthop")
    ELSE LET user == IF Given(args[3]) THEN <<Line("Username", args[3])>> ELSE <<>> IN
         IF preview
         THEN Printed(Shown(args),
                      <<Line("[PREVIEW] Would create transport map", <<>>),
                        Line("Destination", args[1]), Line("Nexthop", args[2])>> \o user)
         ELSE Printed(single_checked(args, g),
                      <<Line("Success: Transport map created", <<>>),
                        Line("Destination", args[1]), Line("Nexthop", args[2])>> \o user)

(* ----------------------- update, get and delete ------------------------ *)
\* values of a flag option whose default is None (--active/--no-active)
True == <<"True">>
False == <<"False">>

\* '1' if flag else '0'
Bit(flag) == IF flag = True THEN <<"1">> ELSE <<"0">>

\* updates[k] = v on a dict kept in insertion order: a sequence of [k, v]
Put(u, k, v) ==
    IF \E i \in 1..Len(u) : u[i].k = k
    THEN [i \in 1..Len(u) |-> IF u[i].k = k THEN [k |-> k, v |-> v] ELSE u[i]]
    ELSE Append(u, [k |-> k, v |-> v])

\* "if x is not None: updates[k] = v"
PutIf(u, given, k, v) == IF given THEN Put(u, k, v) ELSE u

\* 'k' in updates, and updates.get(k, dflt)
Has(u, k) == \E i \in 1..Len(u) : u[i].k = k
Get(u, k, dflt) == IF Has(u, k) THEN u[CHOOSE i \in 1..Len(u) : u[i].k = k].v ELSE dflt

dry_flag == <<"-", "-", "d", "r", "y">>

\* s.replace('--dry', '')
RECURSIVE replace_dry(_)
replace_dry(s) ==
    IF Len(s) = 0 THEN <<>>
    ELSE IF Len(s) >= 5 /\ SubSeq(s, 1, 5) = dry_flag THEN replace_dry(SubSeq(s, 6, Len(s)))
    ELSE <<s[1]>> \o replace_dry(Tail(s))

\* what is echoed in place of a password
masked == <<"*", "*", "*", "*", "*", "*", "*", "*">>

\* jobs_update: the updates dict built from the options a
jobs_updates(a) ==
    LET u1 == PutIf(<<>>, a.host1 # None, "host1", a.host1)
        u2 == PutIf(u1, a.port1 # None, "port1", a.port1)
        u3 == PutIf(u2, a.enc1 # None, "enc1", upper(a.enc1))
        u4 == PutIf(u3, a.user1 # None, "user1", a.user1)
        u5 == PutIf(u4, a.password1 # None, "password1", a.password1)
        u6 == PutIf(u5, a.mins_interval # None, "mins_interval", a.mins_interval)
        u7 == PutIf(u6, a.exclude # None, "exclude", a.exclude)
        u8 == PutIf(u7, a.delete2duplicates # None, "delete2duplicates", Bit(a.delete2duplicates))
        u9 == PutIf(u8, a.automap # None, "automap", Bit(a.automap))
        u10 == PutIf(u9, a.subscribeall # None, "subscribeall", Bit(a.subscribeall))
        u11 == PutIf(u10, a.active # None, "active", Bit(a.active))
        u12 == PutIf(u11, a.custom_params # None, "custom_params", a.custom_params)
        u13 == PutIf(u12, a.dry = True, "custom_params",
                     strip(dry_flag \o <<" ">> \o Get(u12, "custom_params", <<>>)))
    IN  PutIf(u13, a.no_dry = True /\ Has(u13, "custom_params"), "custom_params",
              strip(replace_dry(Get(u13, "custom_params", <<>>))))

\* mailbox_update: the updates dict built from the options a
mailbox_updates(a) ==
    LET u1 == PutIf(<<>>, a.name # None, "name", a.name)
        u2 == PutIf(u1, a.password # None, "password", a.password)
        u3 == PutIf(u2, a.password # None, "password2", a.password)
        u4 == PutIf(u3, a.quota # None, "quota", a.quota)
        u5 == PutIf(u4, a.active # None, "active", Bit(a.active))
        u6 == PutIf(u5, a.force_pw_update # None, "force_pw_update", Bit(a.force_pw_update))
        u7 == PutIf(u6, a.tls_enforce_in # None, "tls_enforce_in", Bit(a.tls_enforce_in))
    IN  PutIf(u7, a.tls_enforce_out # None, "tls_enforce_out", Bit(a.tls_enforce_out))

\* alias_update: the updates dict built from the options a
alias_updates(a) ==
    LET u1 == PutIf(<<>>, a.address # None, "address", a.address)
        u2 == PutIf(u1, a.goto # None, "goto", a.goto)
        u3 == PutIf(u2, a.active # None, "active", Bit(a.active))
    IN  PutIf(u3, a.sogo_visible # None, "sogo_visible", Bit(a.sogo_visible))

\* the lines echoed for the updated fields after "Success: ... updated"
jobs_update_lines(updates) ==
    [i \in 1..Len(updates) |->
        IF updates[i].k # "password1" THEN Line(updates[i].k, updates[i].v)
        ELSE Line(updates[i].k, masked)]

\* mutant: password2 is echoed as any other field
mailbox_update_lines_password2_shown(updates) ==
    [i \in 1..Len(updates) |->
        IF updates[i].k # "password" THEN Line(updates[i].k, updates[i].v)
        ELSE Line("password", masked)]

mailbox_update_lines(updates) ==
    LET shown == SelectSeq(updates, LAMBDA e : e.k # "password2") IN
    [i \in 1..Len(shown) |->
        IF shown[i].k # "password" THEN Line(shown[i].k, shown[i].v)
        ELSE Line("password", masked)]

alias_update_lines(updates) == [i \in 1..Len(updates) |-> Line(updates[i].k, updates[i].v)]

\* mutant: an empty updates dict is sent as it is
jobs_update_sends_empty(a, g) ==
    LET updates == jobs_updates(a) IN
    Printed(single_checked(updates, g),
            <<Line("Success: Sync job updated", <<>>)>> \o jobs_update_lines(updates))

\* jobs_update
jobs_update(a, g) ==
    LET updates == jobs_updates(a) IN
    IF Len(updates) = 0 THEN Usage("No updates specified")
    ELSE Printed(single_checked(updates, g),
                 <<Line("Success: Sync job updated", <<>>)>> \o jobs_update_lines(updates))

\* mailbox_update
mailbox_update(a, g) ==
    LET updates == mailbox_updates(a) IN
    IF Len(updates) = 0 THEN Usage("No updates specified")
    ELSE Printed(single_checked(updates, g),
                 <<Line("Success: Mailbox updated", <<>>)>> \o mailbox_update_lines(updates))

\* alias_update
alias_update(a, g) ==
    LET updates == alias_updates(a) IN
    IF Len(updates) = 0 THEN Usage("No updates specified")
    ELSE Printed(single_checked(updates, g),
                 <<Line("Success: Alias updated", <<>>)>> \o alias_update_lines(updates))

\* jobs_get, mailbox_get, alias_get, transport_get: one call, then
\* "No ... found." or the listing
get_items(g) ==
    LET r == _request(g) IN
    IF r.t = "exit" THEN Step("none", 0, 0, r.text, TRUE, <<>>, g, "exit")
    ELSE IF r.t = "raise" THEN Step("none", 0, 0, r.text, TRUE, <<>>, g, "crash")
    ELSE IF ~Truthy(r.val)
    THEN [Step("none", 0, 0, "", TRUE, <<>>, g, "return") EXCEPT !.out = <<Line("No items found", <<>>)>>]
    ELSE Printed(Step("accepted", 0, 0, "", TRUE, <<>>, g, "return"), <<Line("Total", <<>>)>>)

\* the step s, before which lines were echoed
Echoed(lines, s) == [s EXCEPT !.out = lines \o s.out]

\* mutant: the confirmation prompt's answer is not looked at
transport_delete_unprompted(a, g) ==
    IF Len(a.ids) = 0 THEN Usage("At least one transport ID is required")
    ELSE IF ~a.force
    THEN Echoed(<<Line("About to delete", a.ids)>>,
                Printed(single_checked(a.ids, g), <<Line("Success: Deleted", a.ids)>>))
    ELSE Printed(single_checked(a.ids, g), <<Line("Success: Deleted", a.ids)>>)

\* transport_delete; a = [ids, force, confirm], confirm being the answer to
\* "Continue?"
transport_delete(a, g) ==
    IF Len(a.ids) = 0 THEN Usage("At least one transport ID is required")
    ELSE IF ~a.force
    THEN IF ~a.confirm
         THEN Echoed(<<Line("About to delete", a.ids), Line("Aborted.", <<>>)>>,
                     Step("none", 0, 0, "", FALSE, <<>>, NoReply, "return"))
         ELSE Echoed(<<Line("About to delete", a.ids)>>,
                     Printed(single_checked(a.ids, g), <<Line("Success: Deleted", a.ids)>>))
    ELSE Printed(single_checked(a.ids, g), <<Line("Success: Deleted", a.ids)>>)

(* --------------------------- request payloads -------------------------- *)
\* A keyword argument value: a str, an int or None.
PyText(s) == [py |-> "str", s |-> s, n |-> 0]
PyInt(n) == [py |-> "int", s |-> <<>>, n |-> n]
PyNone == [py |-> "NoneType", s |-> <<>>, n |-> 0]

\* str(n) of a non-negative int
RECURSIVE decimal(_)
decimal(n) == IF n < 10 THEN <<digits[n + 1]>>
              ELSE decimal(n \div 10) \o <<digits[(n % 10) + 1]>>

\* str(v) if not isinstance(v, str) else v
str(v) == IF v.py = "str" THEN v.s
          ELSE IF v.py = "int" THEN decimal(v.n)
          ELSE None

\* for k, v in kwargs.items(): if v is not None: payload[k] = str(v) ...
RECURSIVE update_kwargs(_, _)
update_kwargs(payload, kwargs) ==
    IF Len(kwargs) = 0 THEN payload
    ELSE update_kwargs(PutIf(payload, kwargs[1].v.py # "NoneType", kwargs[1].k, str(kwargs[1].v)),
                       Tail(kwargs))

\* **updates: the entries of a dict of strings as keyword arguments
as_kwargs(updates) == [i \in 1..Len(updates) |-> [k |-> updates[i].k, v |-> PyText(updates[i].v)]]

SYNC_DEFAULTS ==
    << [k |-> "port1", v |-> <<"9", "9", "3">>],
       [k |-> "enc1", v |-> <<"S", "S", "L">>],
       [k |-> "mins_interval", v |-> <<"2", "0">>],
       [k |-> "timeout1", v |-> <<"6", "0", "0">>],
       [k |-> "timeout2", v |-> <<"6", "0", "0">>],
       [k |-> "maxage", v |-> <<"0">>],
       [k |-> "maxbytespersecond", v |-> <<"0">>],
       [k |-> "exclude", v |-> <<"(", "?", "i", ")", "s", "p", "a", "m", "|",
                                 "(", "?", "i", ")", "j", "u", "n", "k">>],
       [k |-> "delete1", v |-> <<"0">>],
       [k |-> "delete2", v |-> <<"0">>],
       [k |-> "delete2duplicates", v |-> <<"1">>],
       [k |-> "automap", v |-> <<"1">>],
       [k |-> "skipcrossduplicates", v |-> <<"0">>],
       [k |-> "subscribeall", v |-> <<"1">>],
       [k |-> "active", v |-> <<"1">>] >>

\* mutant: port1 and enc1 override their defaults whenever they are not None
add_sync_job_not_none(a) ==
    LET p1 == Put(SYNC_DEFAULTS, "username", a.username)
        p2 == Put(p1, "host1", a.host1)
        p3 == Put(p2, "user1", a.user1)
        p4 == Put(p3, "password1", a.password1)
        p5 == PutIf(p4, a.port1 # None, "port1", a.port1)
        p6 == PutIf(p5, a.enc1 # None, "enc1", a.enc1)
    IN  update_kwargs(p6, a.kwargs)

\* MailcowClient.add_sync_job: the payload; a holds the arguments
add_sync_job(a) ==
    LET p1 == Put(SYNC_DEFAULTS, "username", a.username)
        p2 == Put(p1, "host1", a.host1)
        p3 == Put(p2, "user1", a.user1)
        p4 == Put(p3, "password1", a.password1)
        p5 == PutIf(p4, Given(a.port1), "port1", a.port1)
        p6 == PutIf(p5, Given(a.enc1), "enc1", a.enc1)
    IN  update_kwargs(p6, a.kwargs)

\* jobs_add: params, and the arguments create_job hands to add_sync_job;
\* o holds the options of the command
job_arguments(u1, p1, uname, o) ==
    LET params == IF o.dry = True THEN strip(dry_flag \o <<" ">> \o o.custom_params)
                  ELSE o.custom_params
    IN  [username |-> uname, host1 |-> o.host1, user1 |-> u1, password1 |-> p1,
         port1 |-> o.port1, enc1 |-> upper(o.enc1),
         kwargs |-> << [k |-> "mins_interval", v |-> PyText(o.mins_interval)],
                       [k |-> "exclude", v |-> PyText(o.exclude)],
                       [k |-> "delete2duplicates", v |-> PyText(Bit(o.delete2duplicates))],
                       [k |-> "automap", v |-> PyText(Bit(o.automap))],
                       [k |-> "subscribeall", v |-> PyText(Bit(o.subscribeall))],
                       [k |-> "active", v |-> PyText(Bit(o.active))],
                       [k |-> "custom_params", v |-> PyText(params)] >>]

create_job(u1, p1, uname, o) == add_sync_job(job_arguments(u1, p1, uname, o))

\* the options of jobs add, at their defaults; --host1 is required
jobs_add_options ==
    [host1 |-> <<"h">>, port1 |-> <<"9", "9", "3">>, enc1 |-> <<"S", "S", "L">>,
     mins_interval |-> <<"2", "0">>, exclude |-> Get(SYNC_DEFAULTS, "exclude", <<>>),
     delete2duplicates |-> True, automap |-> True, subscribeall |-> True,
     active |-> True, dry |-> False, custom_params |-> <<>>]

\* mutant: password2 is left out of the payload
add_mailbox_no_password2(a) ==
    update_kwargs(<< [k |-> "local_part", v |-> a.local_part],
                     [k |-> "domain", v |-> a.domain],
                     [k |-> "password", v |-> a.password],
                     [k |-> "name", v |-> a.name],
                     [k |-> "quota", v |-> a.quota],
                     [k |-> "active", v |-> a.active],
                     [k |-> "force_pw_update", v |-> a.force_pw_update],
                     [k |-> "tls_enforce_in", v |-> a.tls_enforce_in],
                     [k |-> "tls_enforce_out", v |-> a.tls_enforce_out] >>, a.kwargs)

\* MailcowClient.add_mailbox: the payload
add_mailbox(a) ==
    update_kwargs(<< [k |-> "local_part", v |-> a.local_part],
                     [k |-> "domain", v |-> a.domain],
                     [k |-> "password", v |-> a.password],
                     [k |-> "password2", v |-> a.password],
                     [k |-> "name", v |-> a.name],
                     [k |-> "quota", v |-> a.quota],
                     [k |-> "active", v |-> a.active],
                     [k |-> "force_pw_update", v |-> a.force_pw_update],
                     [k |-> "tls_enforce_in", v |-> a.tls_enforce_in],
                     [k |-> "tls_enforce_out", v |-> a.tls_enforce_out] >>, a.kwargs)

\* the options of mailbox add, at their defaults
mailbox_add_options ==
    [quota |-> <<"0">>, active |-> True, force_pw_update |-> False,
     tls_enforce_in |-> True, tls_enforce_out |-> True]

\* mailbox_add: create_mailbox
create_mailbox(lp, nm, pw, o) ==
    add_mailbox([local_part |-> lp, domain |-> domain, password |-> pw, name |-> nm,
                 quota |-> o.quota, active |-> Bit(o.active),
                 force_pw_update |-> Bit(o.force_pw_update),
                 tls_enforce_in |-> Bit(o.tls_enforce_in),
                 tls_enforce_out |-> Bit(o.tls_enforce_out), kwargs |-> <<>>])

\* MailcowClient.add_alias: the payload
add_alias(a) ==
    update_kwargs(<< [k |-> "address", v |-> a.address], [k |-> "goto", v |-> a.goto],
                     [k |-> "active", v |-> a.active],
                     [k |-> "sogo_visible", v |-> a.sogo_visible] >>, a.kwargs)

\* alias_add: create_alias, --active and --sogo-visible at their defaults
create_alias(addr, gt) ==
    add_alias([address |-> addr, goto |-> gt, active |-> Bit(True),
               sogo_visible |-> Bit(True), kwargs |-> <<>>])

\* MailcowClient.add_transport: the payload
add_transport(a) ==
    update_kwargs(<< [k |-> "destination", v |-> a.destination],
                     [k |-> "nexthop", v |-> a.nexthop],
                     [k |-> "username", v |-> a.username],
                     [k |-> "password", v |-> a.password],
                     [k |-> "active", v |-> a.active] >>, a.kwargs)

\* transport_add: create_transport, --active at its default
create_transport(dest, nh, user, passwd) ==
    add_transport([destination |-> dest, nexthop |-> nh, username |-> user,
                   password |-> passwd, active |-> Bit(True), kwargs |-> <<>>])

\* the JOB_ID, USER@DOMAIN or ALIAS_ID argument of an update command
item == <<"i">>

\* MailcowClient.update_sync_job, update_mailbox, update_alias: the payload
update_item(id, kwargs) == [items |-> <<id>>, attr |-> update_kwargs(<<>>, kwargs)]

\* MailcowClient.delete_transport: the payload is the list of IDs
delete_transport(transport_ids) == transport_ids

\* the body of the request that command c makes in mode m for the record req
request_body(c, m, req) ==
    CASE m \in {"batch", "single"} /\ c = "jobs" ->
            create_job(req[1], req[2], req[3], jobs_add_options)
      [] m \in {"batch", "single"} /\ c = "mailbox" ->
            create_mailbox(req[1], req[2], req[3], mailbox_add_options)
      [] m \in {"batch", "single"} /\ c = "alias" -> create_alias(req[1], req[2])
      [] m \in {"batch", "single"} /\ c = "transport" ->
            create_transport(req[1], req[2], req[3], req[4])
      [] m = "update" -> update_item(item, as_kwargs(req))
      [] m = "delete" -> delete_transport(req)
      [] OTHER -> <<>>

(* ------------------------------- inputs -------------------------------- *)
Commands == {"jobs", "mailbox", "alias", "transport"}

Keywords(c) ==
    CASE c = "jobs" -> jobs_header_keywords
      [] c = "mailbox" -> mailbox_header_keywords
      [] c = "alias" -> alias_header_keywords
      [] c = "transport" -> transport_header_keywords

\* cells of a CSV file: empty, blank, a value with spaces around it
BaseCells == { <<>>, <<" ">>, <<" ", "a", " ">> }

\* first cells that look like a header: the keywords, one of them in capitals
\* and one after a space
HeaderCells(c) ==
    LET k == CHOOSE x \in Keywords(c) : TRUE IN
    Keywords(c) \cup {upper(k), <<" ">> \o k}

\* the rows a csv.reader may yield: [] for an empty line, rows of 1..MaxCols
\* cells, and rows that start like a header
Rows(c) ==
    {<<>>} \cup { <<f>> \o t : f \in BaseCells,
                                t \in UNION { [1..n -> BaseCells] : n \in 0..(MaxCols - 1) } }
           \cup { <<h>> \o [i \in 1..n |-> <<" ", "a", " ">>] :
                      h \in HeaderCells(c), n \in 0..(MaxCols - 1) }

JobsRows == Rows("jobs")
MailboxRows == Rows("mailbox")
AliasRows == Rows("alias")
TransportRows == Rows("transport")

\* values of the options of single mode
OptValues == { None, <<>>, <<" ">>, <<"a">> }
TextValues == { <<>>, <<"a">> }

SingleArgs(c) ==
    CASE c = "jobs" -> { <<a, b, d>> : a \in OptValues, b \in OptValues, d \in OptValues }
      [] c = "mailbox" -> { <<a, b, d>> : a \in OptValues, b \in TextValues, d \in OptValues }
      [] c = "alias" -> { <<a, b>> : a \in OptValues, b \in OptValues }
      [] c = "transport" ->
            { <<a, b, d, e>> : a \in OptValues, b \in OptValues, d \in TextValues, e \in TextValues }

\* the options of the update commands, and those that are flags
JobsUpdateOptions ==
    {"host1", "port1", "enc1", "user1", "password1", "mins_interval", "exclude",
     "delete2duplicates", "automap", "subscribeall", "active", "dry", "no_dry",
     "custom_params"}
MailboxUpdateOptions ==
    {"name", "password", "quota", "active", "force_pw_update", "tls_enforce_in",
     "tls_enforce_out"}
AliasUpdateOptions == {"address", "goto", "active", "sogo_visible"}
FlagOptions ==
    {"delete2duplicates", "automap", "subscribeall", "active", "force_pw_update",
     "tls_enforce_in", "tls_enforce_out", "sogo_visible"}

\* the value of an option that is left out, and of one that is given
OptionDefault(k) == IF k \in {"dry", "no_dry"} THEN False ELSE None
OptionValue(k, fv, cp) ==
    CASE k \in {"dry", "no_dry"} -> True
      [] k \in FlagOptions -> fv
      [] k = "custom_params" -> cp
      [] k = "enc1" -> <<"s", "s", "l">>
      [] k \in {"password1", "password"} -> <<"p", "w">>
      [] OTHER -> <<"v">>

\* the subsets of S that have at most n elements
RECURSIVE SubsetsUpTo(_, _)
SubsetsUpTo(S, n) ==
    IF n = 0 THEN {{}}
    ELSE LET smaller == SubsetsUpTo(S, n - 1) IN
         smaller \cup { X \cup {e} : X \in smaller, e \in S }

\* invocations of an update command with at most MaxOptions options given
UpdateArgsOf(options) ==
    { [k \in options |-> IF k \in S THEN OptionValue(k, fv, cp) ELSE OptionDefault(k)] :
        S \in SubsetsUpTo(options, MaxOptions),
        fv \in {True, False},
        cp \in { <<"x">>, dry_flag \o <<" ", "x">> } }

JobsUpdateArgs == UpdateArgsOf(JobsUpdateOptions)
MailboxUpdateArgs == UpdateArgsOf(MailboxUpdateOptions)
AliasUpdateArgs == UpdateArgsOf(AliasUpdateOptions)

\* transport delete: one or two ids, with or without -y, and the answer given
\* to the confirmation prompt
DeleteArgs ==
    { [ids |-> ids, force |-> f, confirm |-> c] :
        ids \in { <<"5">>, <<"5", "6">> }, f \in BOOLEAN, c \in BOOLEAN }

\* what the gateway may do with the call of a get command
GetReplies ==
    { Reply("json", JList(<<JDict(FALSE, "", FALSE, "")>>)),
      Reply("json", JList(<<>>)),
      Reply("http_error", NoResponse),
      Reply("connection_error", NoResponse),
      Reply("raise", NoResponse) }

\* the modes of a command group, and the arguments of an invocation
Modes(c) ==
    {"batch", "single", "get"}
        \cup (IF c = "transport" THEN {"delete"} ELSE {"update"})

Arguments(c, m) ==
    CASE m = "batch" -> {<<>>}
      [] m = "get" -> {<<>>}
      [] m = "single" -> SingleArgs(c)
      [] m = "delete" -> DeleteArgs
      [] m = "update" /\ c = "jobs" -> JobsUpdateArgs
      [] m = "update" /\ c = "mailbox" -> MailboxUpdateArgs
      [] m = "update" /\ c = "alias" -> AliasUpdateArgs

\* what the gateway may do with the call made for one record
BatchReplies ==
    { Reply("json", JList(<<JDict(TRUE, "success", TRUE, "ok")>>)),
      Reply("json", JList(<<JDict(TRUE, "error", TRUE, "bad")>>)),
      Reply("json", JList(<<JStr("object_exists"), JStr("a@b")>>)),
      Reply("json", JList(<<JStr("error"), JNum("5")>>)),
      Reply("json", JList(<<>>)),
      Reply("http_error", NoResponse),
      Reply("connection_error", NoResponse),
      Reply("raise", NoResponse) }

\* values an API reply may hold
Elements ==
    { JDict(TRUE, "success", TRUE, "ok"), JDict(TRUE, "success", FALSE, ""),
      JDict(TRUE, "error", TRUE, "bad"), JDict(TRUE, "Success", TRUE, "ok"),
      JDict(FALSE, "", TRUE, "m"), JDict(FALSE, "", FALSE, ""),
      JStr("object_exists"), JStr("error"), JStr("success"), JStr("a@b"), JStr(""),
      JNum("5"), JNum("0"), JNull, JEmptyList }

\* decoded bodies: lists of up to MaxElems values, and values that are no list
Responses ==
    { JList(l) : l \in UNION { [1..n -> Elements] : n \in 0..MaxElems } }
    \cup { JScalar(e) : e \in Elements \ {JEmptyList} }

(* -------------------------------- state -------------------------------- *)
VARIABLES
    cmd,            \* the command: jobs, mailbox, alias or transport (add)
    mode,           \* add: "batch" (-f given) or "single"; "update", "get",
                    \* "delete"; "check" in SpecCheck
    preview,        \* --preview
    gen_password,   \* --gen-password (mailbox add only)
    pc,             \* "run", "done" (returned, exit 0), "usage" (UsageError),
                    \* "exit1" (sys.exit(1)), "crash" (uncaught exception)
    row_num,        \* number of the row last read (0: none yet)
    row,            \* batch: the row last read; single: the option values
    success_count,
    error_count,
    api_calls,      \* calls of a client add_* method so far
    called,         \* the client was called for the current record
    record,         \* the normalized fields of the current record, if valid
    reply,          \* what the gateway did with the last call
    checked,        \* what _check_response gave for it
    outcome,        \* outcome of the current record: none, rejected, accepted, failed
    text,           \* message printed for the current record
    log,            \* outcomes printed so far: <<[n |-> row number, o |-> outcome]>>
    summary,        \* what is printed after the loop
    output,         \* lines echoed to standard output by a command that is no batch
    accounts,       \* mailbox batch: email and password of the entries of
                    \* preview_accounts (preview) or created_accounts
    calls,          \* the row numbers of the client calls so far, in order
    payload,        \* the body of the last request handed to _request
    file            \* the rows of the CSV file, where a run reads a given file

vars == <<cmd, mode, preview, gen_password, pc, row_num, row, success_count,
          error_count, api_calls, called, record, reply, checked, outcome, text,
          log, summary, output, accounts, calls, payload, file>>

config == <<cmd, mode, preview, gen_password, file>>

Init ==
    /\ cmd \in Commands
    /\ mode \in Modes(cmd)
    /\ preview \in (IF mode \in {"batch", "single"} THEN BOOLEAN ELSE {FALSE})
    /\ gen_password \in (IF cmd = "mailbox" /\ mode \in {"batch", "single"}
                         THEN BOOLEAN ELSE {FALSE})
    /\ pc = "run"
    /\ row_num = 0
    /\ row \in Arguments(cmd, mode)
    /\ success_count = 0
    /\ error_count = 0
    /\ api_calls = 0
    /\ called = FALSE
    /\ record = <<>>
    /\ reply = NoReply
    /\ checked = NotChecked
    /\ outcome = "none"
    /\ text = ""
    /\ log = <<>>
    /\ summary = <<>>
    /\ output = <<>>
    /\ accounts = <<>>
    /\ calls = <<>>
    /\ payload = <<>>
    /\ file = <<>>

\* mutant: the newest outcome and the newest call are put first
Do_newest_first(s, n, r) ==
    /\ row_num' = n
    /\ row' = r
    /\ success_count' = success_count + s.ds
    /\ error_count' = error_count + s.de
    /\ api_calls' = api_calls + (IF s.called THEN 1 ELSE 0)
    /\ called' = s.called
    /\ record' = s.req
    /\ reply' = s.reply
    /\ checked' = s.chk
    /\ outcome' = s.o
    /\ text' = s.text
    /\ log' = IF s.o = "none" THEN log ELSE <<[n |-> n, o |-> s.o]>> \o log
    /\ pc' = CASE s.end = "next" -> "run"
               [] s.end = "return" -> "done"
               [] s.end = "usage" -> "usage"
               [] s.end = "exit" -> "exit1"
               [] s.end = "crash" -> "crash"
    /\ output' = s.out
    /\ accounts' = IF cmd = "mailbox" /\ mode = "batch" /\ s.o = "accepted"
                    THEN Append(accounts, [email |-> email(s.req[1]), pw |-> s.req[3]])
                    ELSE accounts
    /\ calls' = IF s.called THEN <<n>> \o calls ELSE calls
    /\ payload' = IF s.called THEN request_body(cmd, mode, s.req) ELSE <<>>
    /\ UNCHANGED <<config, summary>>

\* the effect of the step s on record r, read as row n
Do(s, n, r) ==
    /\ row_num' = n
    /\ row' = r
    /\ success_count' = success_count + s.ds
    /\ error_count' = error_count + s.de
    /\ api_calls' = api_calls + (IF s.called THEN 1 ELSE 0)
    /\ called' = s.called
    /\ record' = s.req
    /\ reply' = s.reply
    /\ checked' = s.chk
    /\ outcome' = s.o
    /\ text' = s.text
    /\ log' = IF s.o = "none" THEN log ELSE Append(log, [n |-> n, o |-> s.o])
    /\ pc' = CASE s.end = "next" -> "run"
               [] s.end = "return" -> "done"
               [] s.end = "usage" -> "usage"
               [] s.end = "exit" -> "exit1"
               [] s.end = "crash" -> "crash"
    /\ output' = s.out
    /\ accounts' = IF cmd = "mailbox" /\ mode = "batch" /\ s.o = "accepted"
                    THEN Append(accounts, [email |-> email(s.req[1]), pw |-> s.req[3]])
                    ELSE accounts
    /\ calls' = IF s.called THEN Append(calls, n) ELSE calls
    /\ payload' = IF s.called THEN request_body(cmd, mode, s.req) ELSE <<>>
    /\ UNCHANGED <<config, summary>>

InLoop(c) == pc = "run" /\ mode = "batch" /\ cmd = c
AtSingle(c) == pc = "run" /\ mode = "single" /\ cmd = c

(* ------------------------------- batch mode ---------------------------- *)
\* The gateway acts only when it is called: whether a record is submitted
\* does not depend on what the gateway would answer.
Probe == Reply("raise", NoResponse)
RepliesIf(s) == IF s.called THEN BatchReplies ELSE {NoReply}
\* generate_password() draws only when its value is used: probed with None
PasswordsIf(s) ==
    IF Len(s.req) = 3 /\ s.req[3] = None THEN GeneratedPasswords ELSE {None}
\* the --output format matters only where a listing is printed
FormatsIf(listing) == IF listing THEN {"table", "json", "csv"} ELSE {"table"}

jobs_add_row ==
    /\ InLoop("jobs") /\ row_num < MaxRows
    /\ \E r \in JobsRows :
          \E g \in RepliesIf(jobs_row(row_num + 1, r, preview, Probe)) :
             \E s \in {jobs_row(row_num + 1, r, preview, g)} : Do(s, row_num + 1, r)

mailbox_add_row ==
    /\ InLoop("mailbox") /\ row_num < MaxRows
    /\ \E r \in MailboxRows :
       \E gp \in PasswordsIf(mailbox_row(row_num + 1, r, preview, gen_password, None, Probe)) :
          \E g \in RepliesIf(mailbox_row(row_num + 1, r, preview, gen_password, gp, Probe)) :
             \E s \in {mailbox_row(row_num + 1, r, preview, gen_password, gp, g)} : Do(s, row_num + 1, r)

alias_add_row ==
    /\ InLoop("alias") /\ row_num < MaxRows
    /\ \E r \in AliasRows :
          \E g \in RepliesIf(alias_row(row_num + 1, r, preview, Probe)) :
             \E s \in {alias_row(row_num + 1, r, preview, g)} : Do(s, row_num + 1, r)

transport_add_row ==
    /\ InLoop("transport") /\ row_num < MaxRows
    /\ \E r \in TransportRows :
          \E g \in RepliesIf(transport_row(row_num + 1, r, preview, Probe)) :
             \E s \in {transport_row(row_num + 1, r, preview, g)} : Do(s, row_num + 1, r)

\* the entries of preview_accounts / preview_items, by row
preview_items == IF preview THEN SelectSeq(log, LAMBDA e : e.o = "accepted") ELSE <<>>
\* the entries of created_accounts / created_items, by row
created_items == IF preview THEN <<>> ELSE SelectSeq(log, LAMBDA e : e.o = "accepted")

Completed == [t |-> "completed", s |-> success_count, e |-> error_count]
\* rows: the (email, password) columns of the entries of a mailbox listing
Listing(fmt) == [t |-> "listing", fmt |-> fmt, n |-> Len(preview_items), rows |-> accounts]
Total == [t |-> "total", s |-> success_count]
Credentials(fmt) ==
    [t |-> "credentials", fmt |-> fmt, n |-> Len(created_items), rows |-> accounts]

\* after the loop: the preview listing (and, as a table, its total), or the
\* "Completed" line
after_loop(fmt) ==
    IF preview /\ Len(preview_items) > 0
    THEN IF fmt = "table" THEN <<Listing(fmt), Total>> ELSE <<Listing(fmt)>>
    ELSE <<Completed>>

End(lines) ==
    /\ summary' = lines
    /\ pc' = "done"
    /\ UNCHANGED <<config, row_num, row, success_count, error_count, api_calls,
                   called, record, reply, checked, outcome, text, log, output, accounts, calls, payload>>

\* jobs_add: the file is read to its end
jobs_add_end == InLoop("jobs") /\ End(<<Completed>>)

mailbox_add_end ==
    /\ InLoop("mailbox")
    /\ \E fmt \in FormatsIf(Len(preview_items) > 0 \/ (Len(created_items) > 0 /\ gen_password)) :
          End(IF preview /\ Len(preview_items) > 0 THEN after_loop(fmt)
              ELSE IF Len(created_items) > 0 /\ gen_password
                   THEN <<Completed, Credentials(fmt)>>
                   ELSE <<Completed>>)

alias_add_end ==
    /\ InLoop("alias")
    /\ \E fmt \in FormatsIf(Len(preview_items) > 0) : End(after_loop(fmt))

transport_add_end ==
    /\ InLoop("transport")
    /\ \E fmt \in FormatsIf(Len(preview_items) > 0) : End(after_loop(fmt))

(* ------------------------------ single mode ---------------------------- *)
jobs_add_single ==
    /\ AtSingle("jobs")
    /\ \E g \in RepliesIf(jobs_single(row, preview, Probe)) :
          \E s \in {jobs_single(row, preview, g)} : Do(s, 0, row)

mailbox_add_single ==
    /\ AtSingle("mailbox")
    /\ \E gp \in PasswordsIf(mailbox_single(row, preview, gen_password, None, Probe)) :
          \E g \in RepliesIf(mailbox_single(row, preview, gen_password, gp, Probe)) :
             \E s \in {mailbox_single(row, preview, gen_password, gp, g)} : Do(s, 0, row)

alias_add_single ==
    /\ AtSingle("alias")
    /\ \E g \in RepliesIf(alias_single(row, preview, Probe)) :
          \E s \in {alias_single(row, preview, g)} : Do(s, 0, row)

transport_add_single ==
    /\ AtSingle("transport")
    /\ \E g \in RepliesIf(transport_single(row, preview, Probe)) :
          \E s \in {transport_single(row, preview, g)} : Do(s, 0, row)

(* ----------------------- update, get and delete ------------------------ *)
AtMode(c, m) == pc = "run" /\ mode = m /\ cmd = c

jobs_update_call ==
    /\ AtMode("jobs", "update")
    /\ \E g \in RepliesIf(jobs_update(row, Probe)) :
          \E s \in {jobs_update(row, g)} : Do(s, 0, row)

mailbox_update_call ==
    /\ AtMode("mailbox", "update")
    /\ \E g \in RepliesIf(mailbox_update(row, Probe)) :
          \E s \in {mailbox_update(row, g)} : Do(s, 0, row)

alias_update_call ==
    /\ AtMode("alias", "update")
    /\ \E g \in RepliesIf(alias_update(row, Probe)) :
          \E s \in {alias_update(row, g)} : Do(s, 0, row)

get_call ==
    /\ pc = "run" /\ mode = "get"
    /\ \E g \in GetReplies : \E s \in {get_items(g)} : Do(s, 0, row)

transport_delete_call ==
    /\ AtMode("transport", "delete")
    /\ \E g \in RepliesIf(transport_delete(row, Probe)) :
          \E s \in {transport_delete(row, g)} : Do(s, 0, row)

Next ==
    \/ jobs_add_row
    \/ mailbox_add_row
    \/ alias_add_row
    \/ transport_add_row
    \/ jobs_add_end
    \/ mailbox_add_end
    \/ alias_add_end
    \/ transport_add_end
    \/ jobs_add_single
    \/ mailbox_add_single
    \/ alias_add_single
    \/ transport_add_single
    \/ jobs_update_call
    \/ mailbox_update_call
    \/ alias_update_call
    \/ get_call
    \/ transport_delete_call

Spec == Init /\ [][Next]_vars

(* ------------------------ a batch over a given file -------------------- *)
\* rows of a file: an empty line, a full row of values, rows that start
\* with a header keyword (as it is, in capitals, after a space), a row whose
\* first field is blank, and a row of one value
FileRows(c) ==
    LET k == CHOOSE x \in Keywords(c) : TRUE IN
    { <<>>,
      [i \in 1..MaxCols |-> <<" ", "a", " ">>],
      <<k>> \o [i \in 1..(MaxCols - 1) |-> <<" ", "a", " ">>],
      <<upper(k)>> \o [i \in 1..(MaxCols - 1) |-> <<" ", "a", " ">>],
      <<<<" ">> \o k>> \o [i \in 1..(MaxCols - 1) |-> <<" ", "a", " ">>],
      <<<<" ">>>> \o [i \in 1..(MaxCols - 1) |-> <<"a">>],
      <<<<"a">>>> }

InitFile ==
    /\ cmd \in Commands
    /\ mode = "batch"
    /\ preview \in BOOLEAN
    /\ gen_password \in (IF cmd = "mailbox" THEN BOOLEAN ELSE {FALSE})
    /\ file \in UNION { [1..n -> FileRows(cmd)] : n \in 0..MaxRows }
    /\ pc = "run"
    /\ row_num = 0
    /\ row = <<>>
    /\ success_count = 0
    /\ error_count = 0
    /\ api_calls = 0
    /\ called = FALSE
    /\ record = <<>>
    /\ reply = NoReply
    /\ checked = NotChecked
    /\ outcome = "none"
    /\ text = ""
    /\ log = <<>>
    /\ summary = <<>>
    /\ output = <<>>
    /\ accounts = <<>>
    /\ calls = <<>>
    /\ payload = <<>>

\* the body of the batch loop of command c
batch_row(c, n, r, pv, gen, gp, g) ==
    CASE c = "jobs" -> jobs_row(n, r, pv, g)
      [] c = "mailbox" -> mailbox_row(n, r, pv, gen, gp, g)
      [] c = "alias" -> alias_row(n, r, pv, g)
      [] c = "transport" -> transport_row(n, r, pv, g)

\* for row_num, row in enumerate(reader, 1): the next row of the file
read_row ==
    /\ pc = "run" /\ mode = "batch" /\ row_num < Len(file)
    /\ LET n == row_num + 1
           r == file[n]
       IN  \E gp \in PasswordsIf(batch_row(cmd, n, r, preview, gen_password, None, Probe)) :
              \E g \in RepliesIf(batch_row(cmd, n, r, preview, gen_password, gp, Probe)) :
                 \E s \in {batch_row(cmd, n, r, preview, gen_password, gp, g)} : Do(s, n, r)

\* the reader is exhausted: what follows the loop
end_of_file ==
    /\ row_num = Len(file)
    /\ \/ jobs_add_end
       \/ mailbox_add_end
       \/ alias_add_end
       \/ transport_add_end

NextFile ==
    \/ read_row
    \/ end_of_file

SpecFile == InitFile /\ [][NextFile]_vars

(* --------------------- add_sync_job on its own ------------------------- *)
\* keyword arguments of add_sync_job: at most MaxOptions of them, no key
\* twice; two keys of SYNC_DEFAULTS and one that is not among them, each None,
\* a str or an int
SyncKwargs ==
    { kw \in UNION { [1..n -> [k : {"maxage", "active", "custom_params"},
                               v : { PyNone, PyText(<<>>), PyText(<<"7">>),
                                     PyInt(0), PyInt(42) }]] : n \in 0..MaxOptions } :
        \A i, j \in 1..Len(kw) : i # j => kw[i].k # kw[j].k }

\* calls of the client method
ClientCalls ==
    { [username |-> <<"u">>, host1 |-> <<"h">>, user1 |-> <<"s">>, password1 |-> <<"p">>,
       port1 |-> p, enc1 |-> e, kwargs |-> kw] :
        p \in { None, <<>>, <<"1", "4", "3">> },
        e \in { None, <<>>, <<"T", "L", "S">> },
        kw \in SyncKwargs }

\* invocations of jobs add: the options that reach create_job
JobsAddOptions ==
    { [jobs_add_options EXCEPT !.port1 = p, !.enc1 = e, !.mins_interval = m,
                               !.delete2duplicates = d, !.active = a, !.dry = dr,
                               !.custom_params = cp] :
        p \in { <<>>, <<"9", "9", "3">>, <<"1", "4", "3">> },
        e \in { <<"S", "S", "L">>, <<"T", "L", "S">>, <<"P", "L", "A", "I", "N">> },
        m \in { <<"2", "0">>, <<"5">> },
        d \in { True, False }, a \in { True, False }, dr \in { True, False },
        cp \in { <<>>, <<"x">> } }

InitSync ==
    /\ cmd = "jobs"
    /\ mode = "payload"
    /\ preview = FALSE
    /\ gen_password = FALSE
    /\ pc = "run"
    /\ row_num = 0
    /\ row \in { [via |-> "client", args |-> a] : a \in ClientCalls }
              \cup { [via |-> "cli", args |-> o] : o \in JobsAddOptions }
    /\ success_count = 0
    /\ error_count = 0
    /\ api_calls = 0
    /\ called = FALSE
    /\ record = <<>>
    /\ reply = NoReply
    /\ checked = NotChecked
    /\ outcome = "none"
    /\ text = ""
    /\ log = <<>>
    /\ summary = <<>>
    /\ output = <<>>
    /\ accounts = <<>>
    /\ calls = <<>>
    /\ payload = <<>>
    /\ file = <<>>

\* the payload built for the arguments a; record keeps the arguments
Built(a) ==
    /\ record' = a
    /\ payload' = add_sync_job(a)
    /\ pc' = "done"
    /\ UNCHANGED <<config, row_num, row, success_count, error_count, api_calls,
                   called, reply, checked, outcome, text, log, summary, output,
                   accounts, calls>>

add_sync_job_call ==
    /\ pc = "run" /\ mode = "payload" /\ row.via = "client"
    /\ Built(row.args)

create_job_call ==
    /\ pc = "run" /\ mode = "payload" /\ row.via = "cli"
    /\ Built(job_arguments(<<"s">>, <<"p">>, <<"u">>, row.args))

NextSync ==
    \/ add_sync_job_call
    \/ create_job_call

SpecSync == InitSync /\ [][NextSync]_vars

(* ------------------- generate_password on its own ---------------------- *)
\* the first and the last character of a class
Ends(class) == {class[1], class[Len(class)]}

\* characters of the alphabet that secrets.choice may give
AlphabetSample == Ends(lowercase) \cup Ends(uppercase) \cup Ends(digits) \cup Ends(special)

\* every order for a short password; for one of the default length the
\* order kept, the order reversed and a rotation
Shuffles(n) ==
    IF n <= MaxLength THEN Permutations(1..n)
    ELSE { [i \in 1..n |-> i], [i \in 1..n |-> n + 1 - i], [i \in 1..n |-> (i % n) + 1] }

\* what fills the rest: every choice for a short password, one character
\* repeated for one of the default length
Fills(length) ==
    IF length <= MaxLength THEN [fill_range(length) -> AlphabetSample]
    ELSE { [i \in fill_range(length) |-> ch] : ch \in AlphabetSample }

\* the lengths asked for: those up to MaxLength that have room for the four
\* required characters, and the default
Lengths == (4..MaxLength) \cup {default_length}

\* the choices generate_password(n) may draw
GenerateInputs(n) ==
    { [length |-> n, c1 |-> c1, c2 |-> c2, c3 |-> c3, c4 |-> c4, fill |-> f, perm |-> q] :
        c1 \in Ends(lowercase), c2 \in Ends(uppercase), c3 \in Ends(digits),
        c4 \in Ends(special), f \in Fills(n), q \in Shuffles(n) }

\* Every input of GenerateInputs, for every length, is handed to generate_password once; the
\* password comes back in record.
InitGenerate ==
    /\ cmd = "mailbox"
    /\ mode = "generate"
    /\ preview = FALSE
    /\ gen_password = TRUE
    /\ pc = "run"
    /\ row_num = 0
    /\ row \in UNION { GenerateInputs(n) : n \in Lengths }
    /\ success_count = 0
    /\ error_count = 0
    /\ api_calls = 0
    /\ called = FALSE
    /\ record = <<>>
    /\ reply = NoReply
    /\ checked = NotChecked
    /\ outcome = "none"
    /\ text = ""
    /\ log = <<>>
    /\ summary = <<>>
    /\ output = <<>>
    /\ accounts = <<>>
    /\ calls = <<>>
    /\ payload = <<>>
    /\ file = <<>>

generate_password_call ==
    /\ mode = "generate" /\ pc = "run"
    /\ record' = generate_password(row.length, row.c1, row.c2, row.c3, row.c4,
                                   row.fill, row.perm)
    /\ pc' = "done"
    /\ UNCHANGED <<config, row_num, row, success_count, error_count, api_calls,
                   called, reply, checked, outcome, text, log, summary, output, accounts, calls, payload>>

SpecGenerate == InitGenerate /\ [][generate_password_call]_vars

(* ------------------- name_from_local_part on its own ------------------- *)
\* characters of a local part: letters of both cases and the separators
LocalChars == {"a", "B", ".", "_", "-"}

\* local parts of up to MaxLocal characters, and those of the examples
LocalParts ==
    UNION { [1..n -> LocalChars] : n \in 0..MaxLocal }
    \cup { <<"a", "n", "a", ".", "m", "a", "r", "i", "a", ".", "p", "o", "p">>,
           <<"a", "d", "m", "i", "n">>,
           <<"j", "o", "h", "n", "_", "d", "o", "e">>,
           <<"j", "o", "h", "n", "-", "d", "o", "e">> }

\* Every local part of LocalParts is handed to name_from_local_part once;
\* the name comes back in record.
InitName ==
    /\ cmd = "mailbox"
    /\ mode = "name"
    /\ preview = FALSE
    /\ gen_password = FALSE
    /\ pc = "run"
    /\ row_num = 0
    /\ row \in { <<lp>> : lp \in LocalParts }
    /\ success_count = 0
    /\ error_count = 0
    /\ api_calls = 0
    /\ called = FALSE
    /\ record = <<>>
    /\ reply = NoReply
    /\ checked = NotChecked
    /\ outcome = "none"
    /\ text = ""
    /\ log = <<>>
    /\ summary = <<>>
    /\ output = <<>>
    /\ accounts = <<>>
    /\ calls = <<>>
    /\ payload = <<>>
    /\ file = <<>>

name_from_local_part_call ==
    /\ mode = "name" /\ pc = "run"
    /\ record' = name_from_local_part(row[1])
    /\ pc' = "done"
    /\ UNCHANGED <<config, row_num, row, success_count, error_count, api_calls,
                   called, reply, checked, outcome, text, log, summary, output, accounts, calls, payload>>

SpecName == InitName /\ [][name_from_local_part_call]_vars

(* ------------------- _check_response on its own ------------------------ *)
\* Every decoded body of Responses is handed to _check_response once.
InitCheck ==
    /\ cmd = "client"
    /\ mode = "check"
    /\ preview = FALSE
    /\ gen_password = FALSE
    /\ pc = "run"
    /\ row_num = 0
    /\ row = <<>>
    /\ success_count = 0
    /\ error_count = 0
    /\ api_calls = 0
    /\ called = FALSE
    /\ record = <<>>
    /\ reply \in { Reply("json", b) : b \in Responses }
    /\ checked = NotChecked
    /\ outcome = "none"
    /\ text = ""
    /\ log = <<>>
    /\ summary = <<>>
    /\ output = <<>>
    /\ accounts = <<>>
    /\ calls = <<>>
    /\ payload = <<>>
    /\ file = <<>>

check_response_call ==
    /\ mode = "check" /\ pc = "run"
    /\ checked' = _check_response(reply.body)
    /\ pc' = "done"
    /\ UNCHANGED <<config, row_num, row, success_count, error_count, api_calls,
                   called, record, reply, outcome, text, log, summary, output, accounts, calls, payload>>

SpecCheck == InitCheck /\ [][check_response_call]_vars

(* ------------------------- terms of the claims ------------------------- *)
\* a cell with nothing but whitespace in it
BlankCell(c) == \A i \in 1..Len(c) : c[i] \in {" ", "\t"}

\* a row that is empty or whose cells are all blank
BlankRow(r) == \A i \in 1..Len(r) : BlankCell(r[i])

SameIgnoringCase(a, b) ==
    Len(a) = Len(b) /\ \A i \in 1..Len(a) : UpperChar(a[i]) = UpperChar(b[i])

\* the first row, whose first field is a header keyword of the command
HeaderRow(c, n, r) ==
    n = 1 /\ Len(r) > 0 /\ \E k \in Keywords(c) : SameIgnoringCase(r[1], k)

\* a row that is neither blank nor the skipped header
DataRow(c, n, r) == ~BlankRow(r) /\ ~HeaderRow(c, n, r)

\* least number of columns, and the columns that must not be blank
MinColumns(c) ==
    CASE c = "jobs" -> 3 [] c = "mailbox" -> 1 [] c = "alias" -> 2 [] c = "transport" -> 2

RequiredColumns(c) ==
    CASE c = "jobs" -> {1, 2, 3} [] c = "mailbox" -> {1} [] c = "alias" -> {1, 2}
      [] c = "transport" -> {1, 2}

\* a data row that lacks a column or has a blank required field
Deficient(c, r) ==
    \/ Len(r) < MinColumns(c)
    \/ \E i \in RequiredColumns(c) : i <= Len(r) /\ BlankCell(r[i])

\* a data row that passes validation (a mailbox row also needs a password)
ValidRow(c, r, gen) ==
    /\ ~Deficient(c, r)
    /\ c = "mailbox" => (gen \/ (Len(r) >= 3 /\ ~BlankCell(r[3])))

\* one more row of the file has been read and handled
RowStep == mode = "batch" /\ row_num' = row_num + 1

\* the transport to the gateway failed: no 2xx reply came back
TransportFailure(g) == g.t \in {"http_error", "connection_error"}

\* the reply is a non-empty list whose first item is a mapping of type "success"
SuccessShape(b) ==
    /\ b.top = "list" /\ Len(b.elems) > 0
    /\ b.elems[1].k = "dict" /\ b.elems[1].hasType /\ b.elems[1].type = "success"

\* an empty or absent reply
EmptyShape(b) ==
    \/ b.top = "list" /\ Len(b.elems) = 0
    \/ b.top = "scalar" /\ ~Truthy(b)

RECURSIVE SpaceJoined(_, _)
SpaceJoined(elems, i) ==
    IF i > Len(elems) THEN ""
    ELSE (IF i > 1 THEN " " ELSE "") \o elems[i].s \o SpaceJoined(elems, i + 1)

\* the message the claim names for each shape of reply
ExpectedMessage(b) ==
    IF EmptyShape(b) THEN "Empty response"
    ELSE IF b.top = "list" /\ b.elems[1].k = "dict"
    THEN (IF b.elems[1].hasMsg THEN b.elems[1].msg ELSE PyStr(b))
    ELSE IF b.top = "list" /\ b.elems[1].k = "str" THEN SpaceJoined(b.elems, 1)
    ELSE PyStr(b)

(* -------------------------------- claims ------------------------------- *)
\* C1: in a batch, the counters start at zero and every row that has been
\* processed and is neither blank nor the skipped header adds exactly one to
\* exactly one of success_count and error_count; a blank row or the header
\* adds nothing, and nothing else changes the counters.  (A row at which
\* _request ends the process is not a processed row: see C6.)
C1_CountsMatchDataRows ==
    /\ [](row_num = 0 => success_count = 0 /\ error_count = 0)
    /\ [][ /\ (RowStep /\ pc' # "exit1") =>
                /\ success_count' - success_count \in {0, 1}
                /\ error_count' - error_count \in {0, 1}
                /\ (success_count' + error_count') - (success_count + error_count)
                      = (IF DataRow(cmd, row_num', row') THEN 1 ELSE 0)
           /\ ~RowStep => UNCHANGED <<success_count, error_count>> ]_vars

\* a finished batch of three rows: one skipped, one accepted, one in error
C1_Witness ==
    /\ mode = "batch" /\ pc = "done" /\ row_num = 3
    /\ success_count = 1 /\ error_count = 1 /\ Len(log) = 2

\* C2: _check_response returns, and success is true exactly for a non-empty
\* list whose first item is a mapping with type "success".
C2_SuccessIffSuccessMapping ==
    (mode = "check" /\ pc = "done") =>
        /\ ~checked.raised
        /\ checked.success <=> SuccessShape(reply.body)

\* C3: _check_response returns the message the claim names for the shape of
\* the reply.
C3_MessageByShape ==
    (mode = "check" /\ pc = "done") =>
        /\ ~checked.raised
        /\ checked.msg = ExpectedMessage(reply.body)

\* C4: with --preview no add command, batch or single, calls the client.
C4_PreviewNeverCalls == preview => (api_calls = 0 /\ ~called)

\* a preview batch that accepted two rows
C4_Witness ==
    /\ preview /\ mode = "batch" /\ pc = "done"
    /\ success_count = 2 /\ outcome = "accepted" /\ api_calls = 0

\* C5: in a batch that is no preview, a row whose reply came back is counted
\* as created exactly when the reply is interpreted as success; otherwise it
\* is a failure reported with the interpreted message, and the loop goes on.
C5_FailureReplyIsError ==
    (mode = "batch" /\ called /\ reply.t = "json") =>
        LET c == _check_response(reply.body) IN
        /\ outcome = (IF ~c.raised /\ c.success THEN "accepted" ELSE "failed")
        /\ outcome = "failed" => text = c.msg
        /\ pc \in {"run", "done"}

\* C6: in a batch, a transport failure of the call made for a row gives a
\* failed outcome for that row, and the loop goes on.
C6_TransportFailureFailsRowOnly ==
    (mode = "batch" /\ called /\ TransportFailure(reply)) =>
        (outcome = "failed" /\ pc \in {"run", "done"})

\* C7: in a batch, when the client call made for a row raises an Exception,
\* the row adds one to error_count and nothing to success_count, is reported
\* with the exception's message, and the loop goes on; the batch then ends
\* with the "Completed" line that holds both counters.
C7_ExceptionIsRowError ==
    /\ [][ (RowStep /\ called' /\ reply'.t = "raise") =>
                /\ error_count' = error_count + 1
                /\ success_count' = success_count
                /\ outcome' = "failed"
                /\ text' = "API Error"
                /\ pc' = "run" ]_vars
    /\ []((mode = "batch" /\ ~preview /\ pc = "done") =>
             summary[1] = [t |-> "completed", s |-> success_count, e |-> error_count])

\* a finished batch whose last call raised, after a row was created
C7_Witness ==
    /\ mode = "batch" /\ pc = "done" /\ called /\ reply.t = "raise"
    /\ outcome = "failed" /\ success_count = 1 /\ error_count = 1
    /\ summary = <<[t |-> "completed", s |-> 1, e |-> 1]>>

\* C8: in a batch, a data row with fewer columns than the command needs, or
\* with a required field that is blank once trimmed, adds one to error_count
\* and is not submitted.
C8_DeficientRowRejected ==
    [][ (RowStep /\ DataRow(cmd, row_num', row') /\ Deficient(cmd, row')) =>
            /\ outcome' = "rejected"
            /\ error_count' = error_count + 1
            /\ success_count' = success_count
            /\ ~called'
            /\ api_calls' = api_calls ]_vars

\* a rejected row that has all its columns, one required field being spaces
C8_Witness ==
    /\ mode = "batch" /\ row_num >= 1 /\ ~preview
    /\ Len(row) >= MinColumns(cmd)
    /\ \E i \in RequiredColumns(cmd) : row[i] = <<" ">>
    /\ DataRow(cmd, row_num, row)
    /\ outcome = "rejected" /\ ~called

\* C9: in a batch, a blank row and the header row have no outcome: the
\* counters, the listing and the number of calls stay as they are.
C9_BlankAndHeaderLeaveNoTrace ==
    [][ (RowStep /\ ~DataRow(cmd, row_num', row')) =>
            /\ UNCHANGED <<success_count, error_count, api_calls, log>>
            /\ outcome' = "none"
            /\ ~called'
            /\ pc' = "run" ]_vars

\* a header in capitals, skipped as the first row
C9_Witness ==
    /\ mode = "batch" /\ row_num = 1
    /\ HeaderRow(cmd, 1, row) /\ row[1] \notin Keywords(cmd)
    /\ outcome = "none" /\ log = <<>> /\ pc = "run"

\* C10: in a batch, a row rejected by validation leaves the loop running, and
\* the row read after it is handled as any row: when it is valid it is
\* accepted (preview) or submitted.
C10_RejectionDoesNotAbort ==
    /\ [][ (RowStep /\ outcome' = "rejected") => pc' = "run" ]_vars
    /\ [][ (RowStep /\ outcome = "rejected" /\ DataRow(cmd, row_num', row')
               /\ ValidRow(cmd, row', gen_password)) =>
                IF preview
                THEN outcome' = "accepted" /\ success_count' = success_count + 1
                ELSE called' /\ api_calls' = api_calls + 1 ]_vars

\* an alias batch: two rows rejected, then one accepted
C10_Witness ==
    /\ cmd = "alias" /\ mode = "batch" /\ pc = "done"
    /\ log = << [n |-> 1, o |-> "rejected"], [n |-> 2, o |-> "rejected"],
                [n |-> 3, o |-> "accepted"] >>
    /\ error_count = 2 /\ success_count = 1

\* a mailbox row that was handled, with a local part that is not blank
MailboxDataRow ==
    /\ cmd = "mailbox" /\ mode = "batch" /\ row_num >= 1
    /\ DataRow(cmd, row_num, row) /\ ~BlankCell(row[1])

\* the row has no password: no third column, or nothing in it once trimmed
NoPasswordColumn(r) == Len(r) < 3 \/ BlankCell(r[3])

\* the row has no name: no second column, or nothing in it once trimmed
NoNameColumn(r) == Len(r) < 2 \/ BlankCell(r[2])

\* C11: a mailbox row with a local part and no password (column absent, or
\* empty once trimmed) is rejected with "no password" and not submitted when
\* --gen-password is not set, and gets a generated password when it is set;
\* a password held by the column is the password used, trimmed, with or
\* without --gen-password.
C11_BatchPassword ==
    MailboxDataRow =>
        IF NoPasswordColumn(row)
        THEN IF gen_password
             THEN outcome # "rejected" /\ record[3] \in GeneratedPasswords
             ELSE /\ outcome = "rejected" /\ ~called /\ record = <<>>
                  /\ text = "no password (use --gen-password)"
        ELSE outcome # "rejected" /\ record[3] = strip(row[3])

\* with --gen-password: a row created with a generated password, after a row
\* that kept the password of its column
C11_Witness ==
    /\ MailboxDataRow /\ gen_password /\ row_num = 2 /\ ~preview
    /\ NoPasswordColumn(row) /\ outcome = "accepted"
    /\ record[3] \in GeneratedPasswords
    /\ Len(accounts) = 2 /\ accounts[1].pw = <<"a">> /\ accounts[2].pw = record[3]

\* C14: in mailbox add the name used is the supplied one when there is one
\* (batch: trimmed), and the name made from the local part when the option is
\* left out or the CSV column is absent or blank.
C14_SuppliedNameWins ==
    /\ (MailboxDataRow /\ record # <<>>) =>
            record[2] = (IF NoNameColumn(row) THEN name_from_local_part(strip(row[1]))
                         ELSE strip(row[2]))
    /\ (cmd = "mailbox" /\ mode = "single" /\ pc # "run" /\ record # <<>>) =>
            record[2] = (IF row[2] = <<>> THEN name_from_local_part(row[1]) ELSE row[2])

\* single mode: a mailbox created under the name given with --name, which is
\* not the name its local part gives
C14_Witness ==
    /\ cmd = "mailbox" /\ mode = "single" /\ pc = "done" /\ outcome = "accepted"
    /\ called /\ row[2] = <<"a">> /\ record[2] = <<"a">>
    /\ name_from_local_part(row[1]) = <<"A">>

\* the characters of a sequence
Chars(s) == { s[i] : i \in 1..Len(s) }

LowercaseLetters == Chars(Lowercase)
UppercaseLetters == Chars(Uppercase)
Digits == {"0", "1", "2", "3", "4", "5", "6", "7", "8", "9"}
SpecialCharacters == {"!", "@", "#", "$", "%", "&", "*"}

\* C12: whatever generate_password draws, the password has the length asked
\* for, holds a lowercase letter, an uppercase letter, a digit and one of
\* !@#$%&*, and holds nothing else.
C12_GeneratedPasswordClasses ==
    (mode = "generate" /\ pc = "done") =>
        /\ Len(record) = row.length
        /\ Chars(record) \cap LowercaseLetters # {}
        /\ Chars(record) \cap UppercaseLetters # {}
        /\ Chars(record) \cap Digits # {}
        /\ Chars(record) \cap SpecialCharacters # {}
        /\ Chars(record) \subseteq
              (LowercaseLetters \cup UppercaseLetters \cup Digits \cup SpecialCharacters)

\* a password of the default length, its special character moved to the front
C12_Witness ==
    /\ mode = "generate" /\ pc = "done" /\ row.length = 16 /\ Len(record) = 16
    /\ record[1] \in SpecialCharacters /\ record[16] \in LowercaseLetters

\* position i of lp opens a segment: it holds no separator and follows one,
\* or is the first
OpensSegment(lp, i) ==
    /\ lp[i] \notin {".", "_", "-"}
    /\ (i = 1 \/ lp[i - 1] \in {".", "_", "-"})

\* The name read off lp from position i on: separators are left out, the
\* first character of a segment is put in upper case and the others in lower
\* case, and one space stands before every segment but the first (begun
\* tells whether a segment came before).
RECURSIVE NameFrom(_, _, _)
NameFrom(lp, i, begun) ==
    IF i > Len(lp) THEN <<>>
    ELSE IF lp[i] \in {".", "_", "-"} THEN NameFrom(lp, i + 1, begun)
    ELSE (IF OpensSegment(lp, i) /\ begun THEN <<" ">> ELSE <<>>)
         \o <<(IF OpensSegment(lp, i) THEN UpperChar(lp[i]) ELSE LowerChar(lp[i]))>>
         \o NameFrom(lp, i + 1, TRUE)

\* C13: name_from_local_part gives the segments between the separators . _ -
\* with the empty ones dropped, each capitalized, one space between them;
\* ana.maria.pop gives Ana Maria Pop, admin gives Admin, john_doe and
\* john-doe give John Doe.
C13_NameFromLocalPart ==
    (mode = "name" /\ pc = "done") =>
        /\ record = NameFrom(row[1], 1, FALSE)
        /\ row[1] = <<"a", "n", "a", ".", "m", "a", "r", "i", "a", ".", "p", "o", "p">> => record = <<"A", "n", "a", " ", "M", "a", "r", "i", "a", " ", "P", "o", "p">>
        /\ row[1] = <<"a", "d", "m", "i", "n">> => record = <<"A", "d", "m", "i", "n">>
        /\ row[1] \in {<<"j", "o", "h", "n", "_", "d", "o", "e">>, <<"j", "o", "h", "n", "-", "d", "o", "e">>} => record = <<"J", "o", "h", "n", " ", "D", "o", "e">>

\* a local part with a leading, a doubled and a trailing separator
C13_Witness ==
    /\ mode = "name" /\ pc = "done"
    /\ row[1] = <<".", "a", "_", "-", "B", ".">> \/ row[1] = <<".", "a", "-">>
    /\ record = <<"A">>

\* an option of single mode that is left out or empty
Missing(v) == v = None \/ v = <<>>

\* single-mode add that lacks a required field
MissingRequired ==
    /\ mode = "single"
    /\ CASE cmd = "jobs" -> Missing(row[1]) \/ Missing(row[2]) \/ Missing(row[3])
         [] cmd = "mailbox" -> Missing(row[1]) \/ (Missing(row[3]) /\ ~gen_password)
         [] cmd = "alias" -> Missing(row[1]) \/ Missing(row[2])
         [] cmd = "transport" -> Missing(row[1]) \/ Missing(row[2])

\* an update command that is given no field to update (--no-dry names none)
NoUpdateField ==
    /\ mode = "update"
    /\ \A k \in DOMAIN row :
          \/ k = "no_dry"
          \/ k = "dry" /\ row[k] = False
          \/ k # "dry" /\ row[k] = None

\* C15: single-mode add without a required field, and an update command
\* without any update field, end in a usage error with no client call made;
\* no usage error comes after a client call.
C15_UsageErrorBeforeAnyCall ==
    /\ (pc # "run" /\ (MissingRequired \/ NoUpdateField)) =>
            (pc = "usage" /\ api_calls = 0 /\ ~called /\ output = <<>>)
    /\ pc = "usage" => (api_calls = 0 /\ ~called)

\* jobs update with --no-dry alone: nothing to update
C15_Witness ==
    /\ cmd = "jobs" /\ mode = "update" /\ pc = "usage" /\ row.no_dry = True
    /\ NoUpdateField /\ api_calls = 0

\* an invocation that is no batch: get, single add, update, delete
NonBatch == mode \in {"single", "update", "get", "delete"}

\* C16: outside batch mode, a transport failure of the client call ends the
\* invocation with exit status 1: nothing is echoed after the call, no success
\* is reported and no other call is made.
C16_TransportFailureExits ==
    (NonBatch /\ called /\ TransportFailure(reply)) =>
        /\ pc = "exit1"
        /\ outcome = "none"
        /\ api_calls = 1
        /\ output = (IF mode = "delete" /\ ~row.force
                      THEN <<[k |-> "About to delete", v |-> row.ids]>> ELSE <<>>)

\* mailbox update that met an HTTP error status
C16_Witness ==
    /\ cmd = "mailbox" /\ mode = "update" /\ called /\ reply.t = "http_error"
    /\ pc = "exit1" /\ output = <<>>

\* C17: a batch raises no usage error of its own, so it never ends with a
\* non-zero status: whatever its rows are and whatever the API does with
\* them, it is reading rows or has ended normally, with status 0.
C17_BatchEndsNormally == mode = "batch" => pc \in {"run", "done"}

\* the lines of the summary that list mailbox entries
Listings == SelectSeq(summary, LAMBDA l : l.t \in {"listing", "credentials"})

\* C18: when a mailbox command has ended, every mailbox accepted with a
\* generated password is listed with its email and that password: in the
\* listing printed after the batch, or in the success output of single mode.
C18_GeneratedPasswordsListed ==
    /\ (cmd = "mailbox" /\ mode = "batch" /\ pc # "run") =>
            \A i \in 1..Len(accounts) :
                accounts[i].pw \in GeneratedPasswords =>
                    /\ Len(Listings) = 1
                    /\ Len(Listings[1].rows) >= i
                    /\ Listings[1].rows[i] = accounts[i]
    /\ (cmd = "mailbox" /\ mode = "single" /\ called /\ outcome = "accepted"
            /\ record[3] \in GeneratedPasswords) =>
            /\ \E i \in 1..Len(output) : output[i] = [k |-> "Email", v |-> record[1] \o <<"@", "d">>]
            /\ \E i \in 1..Len(output) : output[i] = [k |-> "Password", v |-> record[3]]

\* the keys of the updates that hold a password
PasswordKeys == {"password1", "password", "password2"}

\* C19: after a successful jobs update or mailbox update, the output shows
\* every updated field that is no password with its value, shows ******** for
\* a changed password and holds the password's value nowhere.
C19_PasswordMasked ==
    (mode = "update" /\ cmd \in {"jobs", "mailbox"} /\ outcome = "accepted") =>
        /\ \A i \in 1..Len(record) :
              record[i].k \notin PasswordKeys =>
                 \E j \in 1..Len(output) : output[j] = record[i]
        /\ (\E i \in 1..Len(record) : record[i].k \in PasswordKeys) =>
              \E j \in 1..Len(output) :
                 /\ output[j].k = (IF cmd = "jobs" THEN "password1" ELSE "password")
                 /\ output[j].v = <<"*", "*", "*", "*", "*", "*", "*", "*">>
        /\ \A i \in 1..Len(record) :
              record[i].k \in PasswordKeys =>
                 \A j \in 1..Len(output) : output[j].v # record[i].v

\* mailbox update of the password and the name
C19_Witness ==
    /\ mode = "update" /\ cmd = "mailbox" /\ outcome = "accepted" /\ pc = "done"
    /\ row.password = <<"p", "w">> /\ row.name = <<"v">>
    /\ Len(record) = 3 /\ Len(output) = 3

\* C20: when a batch has read its last row and ended, preview or not, its
\* summary holds the line with both counters, once.
C20_CountsReportedOnce ==
    (mode = "batch" /\ pc = "done") =>
        Len(SelectSeq(summary, LAMBDA l : l.t = "completed"
                                          /\ l.s = success_count /\ l.e = error_count)) = 1

\* the accepted entries of the log, in the order they were printed
Accepted == SelectSeq(log, LAMBDA e : e.o = "accepted")

\* C21: a batch handles its rows in file order: the rows for which the
\* client was called, and the rows with an outcome, are in increasing row
\* order with no row twice and none beyond the row last read; there is one
\* call per row submitted, and the entries of the mailbox listing are those
\* of the accepted rows, the newest last.
C21_RowsInFileOrder ==
    mode = "batch" =>
        /\ \A i, j \in 1..Len(calls) : i < j => calls[i] < calls[j]
        /\ \A i \in 1..Len(calls) : calls[i] \in 1..row_num
        /\ Len(calls) = api_calls
        /\ \A i, j \in 1..Len(log) : i < j => log[i].n < log[j].n
        /\ \A i \in 1..Len(log) : log[i].n \in 1..row_num
        /\ called => calls[Len(calls)] = row_num
        /\ outcome # "none" => log[Len(log)].n = row_num
        /\ cmd = "mailbox" =>
              /\ Len(accounts) = Len(Accepted)
              /\ outcome = "accepted" =>
                    accounts[Len(accounts)].email = record[1] \o <<"@", "d">>

\* two mailbox rows were submitted and accepted, one after the other
C21_Witness ==
    /\ mode = "batch" /\ cmd = "mailbox" /\ ~preview /\ row_num = 2
    /\ calls = <<1, 2>> /\ Len(Accepted) = 2
    /\ accounts[1].email # accounts[2].email

\* C22: a single-item add that got a 2xx reply reports what _check_response
\* makes of the reply, for every resource kind: success exactly when the
\* reply is interpreted as success, and otherwise a failure with the
\* interpreted message.
C22_SingleAddInterpretsReply ==
    (mode = "single" /\ called /\ reply.t = "json" /\ ~_check_response(reply.body).raised) =>
        LET c == _check_response(reply.body) IN
        /\ outcome = "accepted" <=> c.success
        /\ ~c.success => outcome = "failed" /\ text = c.msg

\* a required option of a single-item add is absent, empty or only spaces
BlankRequired ==
    \E i \in RequiredColumns(cmd) : row[i] = None \/ BlankCell(row[i])

\* C23: a single-item add with a required field that is absent or blank
\* after trimming ends with a usage error and calls nothing.
C23_SingleAddRejectsBlank ==
    (mode = "single" /\ pc # "run" /\ BlankRequired) => pc = "usage" /\ ~called

\* what a preview run makes of row k of the file
PreviewStep(k) == batch_row(cmd, k, file[k], TRUE, gen_password, None, Probe)

\* the fields of a record that are not drawn at random: all of them, but
\* for a password that generate_password gave
NonRandom(req, k) ==
    IF cmd = "mailbox" /\ ~(Len(file[k]) >= 3 /\ ~BlankCell(file[k][3]))
    THEN SubSeq(req, 1, 2) ELSE req

\* C24: a preview predicts the run that executes the same file with the same
\* options: when the execute run has ended, the rows it called the client
\* for are exactly the rows the preview accepts, each call with the fields
\* the preview shows (a generated password apart), and the rows it rejected
\* are exactly the rows the preview rejects.
C24_PreviewPredictsExecute ==
    /\ (mode = "batch" /\ ~preview /\ pc # "run") =>
          \A k \in 1..Len(file) :
             /\ PreviewStep(k).o = "accepted" <=> \E i \in 1..Len(calls) : calls[i] = k
             /\ PreviewStep(k).o = "rejected" <=>
                   \E i \in 1..Len(log) : log[i].n = k /\ log[i].o = "rejected"
    /\ (mode = "batch" /\ ~preview /\ called) =>
          NonRandom(record, row_num) = NonRandom(PreviewStep(row_num).req, row_num)

\* the rows of the file that are neither blank nor the skipped header
DataRows == { k \in 1..Len(file) : DataRow(cmd, k, file[k]) }

\* C25: a batch over a finite file is never cut short: whatever the gateway
\* does with each call, the run is still in its loop with a row or the end of
\* the file ahead of it, or it has reached its final summary with one outcome
\* for each row that is neither blank nor the header.
C25_BatchReachesSummary ==
    mode = "batch" =>
        \/ pc = "run" /\ row_num <= Len(file)
        \/ pc = "done" /\ Len(summary) > 0 /\ Len(log) = Cardinality(DataRows)

\* the caller of add_sync_job supplied an override for the optional key k:
\* a non-empty port1 or enc1, a keyword argument that is not None
HasOverride(a, k) ==
    IF k \in {"port1", "enc1"} THEN a[k] # None /\ a[k] # <<>>
    ELSE \E i \in 1..Len(a.kwargs) : a.kwargs[i].k = k /\ a.kwargs[i].v.py # "NoneType"

\* a supplied value as a string
AsString(v) ==
    IF v.py = "str" THEN v.s
    ELSE CASE v.n = 0 -> <<"0">> [] v.n = 42 -> <<"4", "2">>

Override(a, k) ==
    IF k \in {"port1", "enc1"} THEN a[k]
    ELSE AsString(a.kwargs[CHOOSE i \in 1..Len(a.kwargs) : a.kwargs[i].k = k].v)

\* C26: the payload of every sync-job create request holds username, host1,
\* user1 and password1 as given, and every key of SYNC_DEFAULTS: with the
\* override as a string where the caller supplied one, and with the default
\* otherwise.
C26_SyncJobPayloadComplete ==
    (mode = "payload" /\ pc = "done") =>
        /\ \A k \in {"username", "host1", "user1", "password1"} :
              Has(payload, k) /\ Get(payload, k, None) = record[k]
        /\ \A i \in 1..Len(SYNC_DEFAULTS) :
              LET k == SYNC_DEFAULTS[i].k IN
              /\ Has(payload, k)
              /\ Get(payload, k, None) = IF HasOverride(record, k) THEN Override(record, k)
                                         ELSE SYNC_DEFAULTS[i].v

\* port1 is given empty, maxage as the int 42 and active as None
C26_Witness ==
    /\ mode = "payload" /\ pc = "done" /\ row.via = "client"
    /\ record.port1 = <<>> /\ Get(payload, "port1", None) = <<"9", "9", "3">>
    /\ \E i \in 1..Len(record.kwargs) :
          record.kwargs[i].k = "maxage" /\ record.kwargs[i].v.py = "int" /\ record.kwargs[i].v.n = 42
    /\ Get(payload, "maxage", None) = <<"4", "2">>
    /\ \E i \in 1..Len(record.kwargs) :
          record.kwargs[i].k = "active" /\ record.kwargs[i].v.py = "NoneType"
    /\ Get(payload, "active", None) = <<"1">>

\* C27: a mailbox request that carries a password carries it twice: mailbox
\* add always sends password and password2, both the record's password;
\* mailbox update sends both, equal, or neither.
C27_Password2EqualsPassword ==
    /\ (cmd = "mailbox" /\ mode \in {"batch", "single"} /\ called) =>
          /\ Has(payload, "password") /\ Has(payload, "password2")
          /\ Get(payload, "password", None) = record[3]
          /\ Get(payload, "password2", None) = record[3]
    /\ (cmd = "mailbox" /\ mode = "update" /\ called) =>
          /\ Has(payload.attr, "password") <=> Has(payload.attr, "password2")
          /\ Has(payload.attr, "password") <=> row.password # None
          /\ Has(payload.attr, "password") =>
                /\ Get(payload.attr, "password", None) = row.password
                /\ Get(payload.attr, "password2", None) = row.password

\* a mailbox is added in single mode with the password it was given
C27_Witness ==
    /\ cmd = "mailbox" /\ mode = "single" /\ called /\ outcome = "accepted"
    /\ row[3] = <<"a">>
    /\ Get(payload, "password", None) = <<"a">>
    /\ Get(payload, "password2", None) = <<"a">>

\* C28: transport delete calls the client only when it is authorised: with
\* --force, or after the prompt was answered yes.  A declined prompt prints
\* "Aborted." and ends the command with no call; a call is made once, with
\* exactly the IDs given.
C28_DeleteOnlyWhenAuthorised ==
    mode = "delete" =>
        /\ api_calls <= 1
        /\ called => /\ row.force \/ row.confirm
                     /\ api_calls = 1
                     /\ payload = row.ids
        /\ (pc # "run" /\ ~row.force /\ ~row.confirm) =>
              /\ ~called /\ api_calls = 0 /\ pc = "done"
              /\ output[Len(output)] = [k |-> "Aborted.", v |-> <<>>]
        /\ (pc # "run" /\ (row.force \/ row.confirm)) => called /\ api_calls = 1

\* two IDs are deleted after the prompt was answered yes
C28_Witness ==
    /\ mode = "delete" /\ ~row.force /\ row.confirm /\ called /\ outcome = "accepted"
    /\ row.ids = <<"5", "6">> /\ payload = <<"5", "6">>

\* C29: _check_response is total: for every response value it returns a
\* truth value and a message, and raises nothing.
C29_CheckResponseTotal ==
    (mode = "check" /\ pc = "done") =>
        ~checked.raised /\ checked.success \in BOOLEAN

\* the rows of the file read so far that are not blank and got no outcome
SkippedRows ==
    { k \in 1..row_num : ~BlankRow(file[k]) /\ \A i \in 1..Len(log) : log[i].n # k }

\* C30: while a batch reads its file to the end, a row that is not blank is
\* passed over without an outcome only if it is row 1 and its first field,
\* as it stands, equals a header keyword but for case; so at most one row is
\* skipped as a header, and a header keyword on a later row, even after
\* nothing but empty lines, leaves the row a data row with its outcome.
C30_OnlyHeaderSkipped ==
    (mode = "batch" /\ pc \in {"run", "done"}) =>
        /\ \A k \in SkippedRows :
              k = 1 /\ \E w \in Keywords(cmd) : SameIgnoringCase(file[k][1], w)
        /\ Cardinality(SkippedRows) <= 1
        /\ \A k \in 2..row_num :
              ~BlankRow(file[k]) => \E i \in 1..Len(log) : log[i].n = k

\* after an empty line, a row that starts with a header keyword is accepted
C30_Witness ==
    /\ mode = "batch" /\ pc = "run" /\ row_num = 2
    /\ Len(file[1]) = 0 /\ Len(file[2]) > 0 /\ file[2][1] \in Keywords(cmd)
    /\ outcome = "accepted" /\ log = <<[n |-> 2, o |-> "accepted"]>>

====
